---- MODULE Spec2Model ----
(***************************************************************************)
(* The agent-team dispatcher of extensions/agent-team.ts                   *)
(* (src/unnamed/part_004): the probe cache of checkOllamaModel, the live   *)
(* state table of activateTeam, and dispatchAgent with the events of the   *)
(* child processes it launches.                                            *)
(*                                                                         *)
(* One step of the model is one run-to-completion piece of the single      *)
(* JavaScript thread: the synchronous part of a call up to its first       *)
(* await, the continuation after an await, or one event handler.           *)
(***************************************************************************)
EXTENDS Integers, Sequences, FiniteSets, TLC

----------------------------------------------------------------------------
(* Bounds of the model *)

\* What arrives from outside in one behaviour: dispatch_agent calls,
\* /agents-team activations, stdout "data" reads, firings of the one-second
\* tickers, writes of a session artifact and answers to the probes of the
\* audits, taken together.  (The settling of a call's probe and the end of
\* a child are not counted: each call has at most one of each.)
MaxOps == 2

----------------------------------------------------------------------------
(* Values *)

\* A value that may be null/undefined: <<>> is null, <<v>> is v.
Null == <<>>
Some(v) == <<v>>

\* Strings whose characters matter are sequences of characters.
EmptyStr == <<>>
\* `Error: ${err.message}` of a failed spawn, one opaque non-blank character.
SpawnErrWork == <<"Error: spawn pi ENOENT">>

\* String.prototype.toLowerCase on the names used here.
ToLowerCase(s) ==
  CASE s = "Builder" -> "builder"
    [] s = "Scout"   -> "scout"
    [] s = "Ollama"  -> "ollama"
    [] s = "Tester"  -> "tester"
    [] OTHER         -> s

\* A model identifier is the sequence of its "/"-separated segments:
\* <<"ollama","qwen">> is "ollama/qwen", <<>> is the empty string.
LOCAL_PROVIDERS ==
  {"ollama", "m3-ollama", "llama.cpp", "lmstudio", "llamafile", "jan"}

parseModelString(modelStr) ==
  IF Len(modelStr) <= 1
    THEN [provider |-> "", modelName |-> modelStr]
    ELSE [provider |-> Head(modelStr), modelName |-> Tail(modelStr)]

\* A mutation of isLocalProvider: every named provider counts as local.
isLocalProviderAny(provider) == provider # ""

isLocalProvider(provider) ==
  IF provider = "" THEN FALSE ELSE ToLowerCase(provider) \in LOCAL_PROVIDERS

----------------------------------------------------------------------------
(* The loaded definitions, the teams and the inputs *)

\* allAgentDefs: scout inherits the dispatcher's model, Builder overrides it
\* with a locally hosted one.
allAgentDefs ==
  { [name |-> "scout",   model |-> <<>>],
    [name |-> "Builder", model |-> <<"ollama", "qwen">>],
    [name |-> "tester",  model |-> <<"Ollama", "llama">>] }

\* teams (teams.yaml): member names are matched case-insensitively, "ghost"
\* resolves to no definition.
teams ==
  [ full   |-> <<"scout", "builder">>,
    solo   |-> <<"Scout", "ghost">>,
    locals |-> <<"builder", "Tester">> ]

\* the teams /agents-team selects while dispatches are made, and the teams
\* it selects where the audits alone are followed
TeamNames == {"full", "solo"}
AuditTeamNames == {"locals", "solo"}

\* agent names a caller passes to dispatch_agent
DispatchNames == {"Scout", "builder", "ghost"}
\* The task text of the id-th call: every call carries a text of its own.
TaskText(id) == <<"task", id>>
\* ctx.model of a call: undefined, or the dispatcher's cloud model
AmbientModels ==
  { Null, Some([provider |-> "anthropic", id |-> "claude"]) }

Keys == {ToLowerCase(d.name) : d \in allAgentDefs}
\* the model names a capability result can be looked up for
ModelNames == {<<"qwen">>, <<"llama">>, <<"claude">>}

DefOfKey(k) == CHOOSE d \in allAgentDefs : ToLowerCase(d.name) = k

\* join(sessionDir, `${key}.json`): the artifact is named by the lowercased
\* name with whitespace runs replaced by "-"; none of the names here holds
\* whitespace.
SessionFileOf(name) == ToLowerCase(name)

----------------------------------------------------------------------------
(* checkOllamaModel *)

\* What the backend does to one query.
\*   unreachable : fetch throws or times out, or the body is not JSON
\*   notfound    : the host answers, the model is not installed (!showRes.ok)
\*   notools     : installed, capabilities lack "tools"
\*   tools       : installed, capabilities hold "tools"
ProbeOutcomes == {"unreachable", "notfound", "notools", "tools"}

\* The further answers the audits are followed with:
\*   nocaps      : installed, the answer lists no capability at all
\*   small       : tools, a parameter size below MIN_RELIABLE_PARAMS_B
\*   update      : tools, the registry holds another digest
\*   smallupdate : both
AuditOutcomes ==
  ProbeOutcomes \cup {"nocaps", "small", "update", "smallupdate"}

MIN_RELIABLE_PARAMS_B == 30

\* parseParamSize of details.parameter_size of a small and of a large model
SmallParamsB == 7
LargeParamsB == 30

\* What the backend holds for the model when it is asked.
Backend(outcome) ==
  [ answers      |-> outcome # "unreachable",
    installed    |-> outcome \notin {"unreachable", "notfound"},
    capabilities |->
      CASE outcome \in {"tools", "small", "update", "smallupdate"}
             -> {"completion", "tools"}
        [] outcome = "notools" -> {"completion"}
        [] OTHER -> {},
    parameterSizeB |->
      CASE outcome \in {"small", "smallupdate"} -> SmallParamsB
        [] outcome \in {"notools", "nocaps", "tools", "update"} -> LargeParamsB
        [] OTHER -> 0,
    newer        |-> outcome \in {"update", "smallupdate"} ]

\* The ModelCheckResult checkOllamaModel returns for a query's outcome:
\* the fields keep their initial values unless the host answered and the
\* model is installed.  (outcome is carried along for the properties; no
\* code reads it.)
ResultOf(modelName, outcome) ==
  LET b    == Backend(outcome)
      read == b.answers /\ b.installed
  IN  [ model           |-> modelName,
        reachable       |-> b.answers,
        capabilities    |-> IF read THEN b.capabilities ELSE {},
        hasTools        |-> read /\ "tools" \in b.capabilities,
        parameterSizeB  |-> IF read THEN b.parameterSizeB ELSE 0,
        updateAvailable |-> IF read THEN Some(b.newer) ELSE Null,
        outcome         |-> outcome ]

\* A mutation of IsCached: every result is stored.
IsCachedAll(outcome) == TRUE

\* Whether checkOllamaModel stores the result: the two modelCheckCache.set
\* calls are reached for notfound and for a fully read answer; both catch
\* paths return without storing.
IsCached(outcome) == outcome # "unreachable"

\* modelCheckCache after a query of modelName settled with outcome.
CacheAfter(c, modelName, outcome) ==
  IF IsCached(outcome)
    THEN [c EXCEPT ![modelName] = Some(ResultOf(modelName, outcome))]
    ELSE c

----------------------------------------------------------------------------
(* dispatchAgent: the pure parts *)

\* state.def.model || (ctx.model ? `${provider}/${id}` : "")
EffectiveModel(def, amb) ==
  IF def.model # <<>> THEN def.model
  ELSE IF amb # Null THEN <<amb[1].provider, amb[1].id>>
  ELSE <<>>

\* Whether the pre-dispatch check is made at all for this model.
NeedsCheck(effectiveModel) ==
  /\ effectiveModel # <<>>
  /\ isLocalProvider(parseModelString(effectiveModel).provider)

\* A mutation of AlreadyRunning: the status is not looked at.
AlreadyRunningNever(st) == FALSE

\* if (state.status === "running") return already-running
AlreadyRunning(st) == st.status = "running"

\* A mutation of GateBlocks: reachable is not looked at.
GateBlocksNoTools(check) == check # Null /\ ~check[1].hasTools

\* A mutation of GateBlocks: the test of reachable is inverted.
GateBlocksUnreachableOnly(check) ==
  check # Null /\ ~check[1].hasTools /\ ~check[1].reachable

\* if (check && !check.hasTools && check.reachable) return BLOCKED
GateBlocks(check) ==
  check # Null /\ ~check[1].hasTools /\ check[1].reachable

\* A mutation of StatusOfExit: a missing exit code counts as success.
StatusOfExitNullOk(code) ==
  IF code = Some(0) \/ code = Null THEN "done" ELSE "error"

\* state.status = code === 0 ? "done" : "error"
StatusOfExit(code) == IF code = Some(0) THEN "done" ELSE "error"

\* exitCode: code ?? 1
ExitIndicator(code) == IF code = Null THEN 1 ELSE code[1]

\* full.split("\n"): the lines of a string, as a sequence of strings
RECURSIVE SplitLines(_)
SplitLines(s) ==
  IF \A i \in 1..Len(s) : s[i] # "\n"
    THEN <<s>>
    ELSE LET i == CHOOSE j \in 1..Len(s) :
                    s[j] = "\n" /\ \A k \in 1..(j-1) : s[k] # "\n"
         IN  <<SubSeq(s, 1, i-1)>> \o SplitLines(SubSeq(s, i+1, Len(s)))

\* l.trim() is non-empty
NonBlank(line) == \E i \in 1..Len(line) : line[i] \notin {" ", "\n"}

\* full.split("\n").filter(l => l.trim()).pop() || ""
LastNonBlankLine(full) ==
  LET lines == SelectSeq(SplitLines(full), NonBlank)
  IN  IF lines = <<>> THEN EmptyStr ELSE lines[Len(lines)]

----------------------------------------------------------------------------
(* The state *)

VARIABLES
  agentStates,      \* the Map agentStates: key -> index into heap, 0 = no entry
  heap,             \* every AgentState object created so far, by creation order
  timers,           \* the active intervals: [id, obj, start], id is the
                    \* call that set it, obj and start what it captured
  now,              \* Date.now()
  modelCheckCache,  \* model name -> Null or Some(ModelCheckResult)
  nCalls,           \* dispatchAgent calls made so far
  calls,            \* call id -> the call while it is in flight
  settled,          \* what the call that returned last gave its caller
  audits,           \* the auditTeamModels runs started so far
  disk,             \* the session artifacts that exist under sessionDir
  contextWindow,    \* ctx.model.contextWindow || 0 at session start
  nOps,             \* calls, activations, reads, ticks and writes so far
  succeeded,        \* the artifacts of the runs that have exited with 0
  fnCall,           \* where one function of the loading and reporting code
                    \* is followed by itself: the function, its argument
                    \* and, once it has returned, its result
  git               \* the git status footer: its status, its poll and the
                    \* calls of refresh that have not settled

vars == << agentStates, heap, timers, now, modelCheckCache, nCalls, calls,
           settled, audits, disk, contextWindow, nOps, succeeded, fnCall, git >>

\* The variables of the dispatcher.
dispatcherVars ==
  << agentStates, heap, timers, now, modelCheckCache, nCalls, calls,
     settled, audits, disk, contextWindow, nOps, succeeded >>

\* The git status footer once it is loaded: no status, no poll, no footer.  tree is
\* the working tree, started counts the calls of refresh, stored is the
\* call whose result status holds, notice the last notification.
GitAtLoad ==
  [ status    |-> Null,
    pollTimer |-> FALSE,
    footer    |-> FALSE,
    session   |-> "none",
    tree      |-> 0,
    started   |-> 0,
    fetches   |-> {},
    stored    |-> 0,
    notice    |-> "none" ]

\* No function is followed by itself.
NoFnCall == [fn |-> "none", arg |-> Null, result |-> Null]

\* The AgentState activateTeam creates for a definition.
FreshState(def, dsk) ==
  [ def         |-> def,
    status      |-> "idle",
    task        |-> EmptyStr,
    toolCount   |-> 0,
    elapsed     |-> 0,
    lastWork    |-> EmptyStr,
    contextPct  |-> 0,
    sessionFile |-> IF SessionFileOf(def.name) \in dsk
                      THEN Some(SessionFileOf(def.name)) ELSE Null,
    runCount    |-> 0,
    timer       |-> 0 ]

\* The loop of activateTeam over the members, after agentStates.clear():
\* unresolved members are skipped, each resolved member gets a new object.
RECURSIVE ActivateMembers(_, _, _, _)
ActivateMembers(members, roster, hp, dsk) ==
  IF members = <<>> THEN [roster |-> roster, heap |-> hp]
  ELSE LET k == ToLowerCase(Head(members))
       IN  IF k \notin Keys
             THEN ActivateMembers(Tail(members), roster, hp, dsk)
             ELSE ActivateMembers(Tail(members),
                                  [roster EXCEPT ![k] = Len(hp) + 1],
                                  Append(hp, FreshState(DefOfKey(k), dsk)),
                                  dsk)

\* A mutation of activateTeam: the table is not cleared first.
activateTeamNoClear(teamName, table, hp, dsk) ==
  ActivateMembers(teams[teamName], table, hp, dsk)

\* activateTeam on the table agentStates holds: the table is cleared, then
\* filled from the members.
activateTeam(teamName, table, hp, dsk) ==
  ActivateMembers(teams[teamName], [k \in Keys |-> 0], hp, dsk)

\* The agents auditTeamModels queries the backend for: an explicit model
\* override on a local provider, and no cached result.
AuditQueries(roster, hp, cache) ==
  { k \in Keys :
      /\ roster[k] # 0
      /\ hp[roster[k]].def.model # <<>>
      /\ isLocalProvider(parseModelString(hp[roster[k]].def.model).provider)
      /\ cache[parseModelString(hp[roster[k]].def.model).modelName] = Null }

\* The advisories auditTeamModels pushes for one result.
AuditClassify(result) ==
  IF ~result.reachable THEN {"unreachable"}
  ELSE IF result.capabilities = {} /\ ~result.hasTools THEN {"notfound"}
  ELSE (IF ~result.hasTools THEN {"BLOCK"}
        ELSE IF result.parameterSizeB > 0
                /\ result.parameterSizeB < MIN_RELIABLE_PARAMS_B
          THEN {"WARN"}
        ELSE {})
       \cup (IF result.updateAvailable = Some(TRUE) THEN {"UPDATE"} ELSE {})

\* A mutation of NoticeDue: the findings are shown as soon as there is one.
NoticeDueEarly(pending, warnings) == warnings # {}

\* After await Promise.all(checks): if (warnings.length > 0) notify.
NoticeDue(pending, warnings) == pending = {} /\ warnings # {}

\* The agents auditTeamModels checks: an explicit model override on a local
\* provider.
AuditChecks(roster, hp) ==
  { k \in Keys :
      /\ roster[k] # 0
      /\ hp[roster[k]].def.model # <<>>
      /\ isLocalProvider(parseModelString(hp[roster[k]].def.model).provider) }

\* An auditTeamModels run up to its first wait: the checks whose result is
\* cached are classified at once, the others are queries in flight.
\*   seen     : <<agent, outcome>> of the results classified so far
\*   warnings : <<agent, advisory>> pushed so far
\*   notices  : how often the aggregate notification was shown
StartAudit(teamName, roster, hp, cache) ==
  LET pending == AuditQueries(roster, hp, cache)
      cached  == AuditChecks(roster, hp) \ pending
      res(k)  == cache[parseModelString(DefOfKey(k).model).modelName][1]
      warns   == UNION { { <<k, w>> : w \in AuditClassify(res(k)) } :
                         k \in cached }
  IN  [ team     |-> teamName,
        pending  |-> pending,
        seen     |-> { <<k, res(k).outcome>> : k \in cached },
        warnings |-> warns,
        notices  |-> IF NoticeDue(pending, warns) THEN 1 ELSE 0 ]

\* The context-window size of the session's model.
ContextWindows == {2}

\* A call that is not in flight: not made yet, or returned with its child
\* gone.
NoCall ==
  [ name       |-> "",         \* the agent name the call was made with
    obj        |-> 0,          \* the AgentState the call captured
    pc         |-> "none",     \* none | probe | child
    task       |-> EmptyStr,
    local      |-> FALSE,      \* whether the effective model is local
    modelName  |-> <<>>,       \* the model the call is probing
    check      |-> Null,       \* the capability result the gate looked at
    proc       |-> "none",     \* ok | fail : how the spawn went
    resume     |-> FALSE,      \* whether -c was passed
    startTime  |-> 0,
    stream     |-> <<>>,       \* what the child has written to stdout
    buffer     |-> <<>>,       \* the unterminated rest the handler keeps
    textChunks |-> EmptyStr ]  \* textChunks.join("")

\* What a returned call gave its caller, with what decided it.
Settled(n, id, name, o, kind, exitCode, elapsed, check, code) ==
  [ n         |-> n,         \* calls that have returned
    id        |-> id,
    name      |-> name,      \* the agent name the call was made with
    obj       |-> o,
    kind      |-> kind,      \* notfound | already | blocked | threw |
                             \* spawnerr | closed
    exitCode  |-> exitCode,
    elapsed   |-> elapsed,
    check     |-> check,     \* the capability result the gate looked at
    closeCode |-> code ]     \* Some(code) when "close" settled it

\* After session_start with teamName the first team of teams.yaml: the
\* artifacts are wiped, the team is active, its audit is in flight, nothing
\* is cached.
InitTeam(teamName) ==
  LET act == activateTeam(teamName, [k \in Keys |-> 0], <<>>, {})
      cold == [m \in ModelNames |-> Null]
  IN  /\ agentStates = act.roster
      /\ heap = act.heap
      /\ timers = {}
      /\ now = 0
      /\ modelCheckCache = cold
      /\ nCalls = 0
      /\ calls = [id \in 1..MaxOps |-> NoCall]
      /\ settled = Settled(0, 0, "", 0, "none", 0, 0, Null, Null)
      /\ audits = << StartAudit(teamName, act.roster, act.heap, cold) >>
      /\ disk = {}
      /\ contextWindow \in ContextWindows
      /\ nOps = 0
      /\ succeeded = {}
      /\ git = GitAtLoad

Init == InitTeam("full") /\ fnCall = NoFnCall

----------------------------------------------------------------------------
(* dispatchAgent *)

\* A mutation of StateOfName: the name is looked up as it was given.
StateOfNameExact(name) ==
  IF name \in Keys THEN agentStates[name] ELSE 0

StateOfName(name) ==
  IF ToLowerCase(name) \in Keys THEN agentStates[ToLowerCase(name)] ELSE 0

\* The call returns to its caller.
Return(id, name, o, kind, exitCode, elapsed, check, code) ==
  settled' = Settled(settled.n + 1, id, name, o, kind, exitCode, elapsed,
                     check, code)

\* A mutation of RunReset: the run is not counted.
RunResetNotCounted(st, task, id) ==
  [st EXCEPT !.status = "running", !.task = task, !.toolCount = 0,
             !.elapsed = 0, !.lastWork = EmptyStr, !.timer = id]

\* The transition to running: the per-run fields are reset, the run is
\* counted and state.timer holds the new interval.
RunReset(st, task, id) ==
  [st EXCEPT !.status = "running", !.task = task, !.toolCount = 0,
             !.elapsed = 0, !.lastWork = EmptyStr, !.runCount = @ + 1,
             !.timer = id]

\* clearInterval(handle)
ClearInterval(ts, handle) == {t \in ts : t.id # handle}

\* How a spawn can go: the child runs, the failure arrives as an "error"
\* event, or spawn itself throws (an argument with a NUL byte, E2BIG).
LaunchOutcomes == {"ok", "fail", "throw"}

\* dispatchAgent from the transition to running to the return of the
\* promise, for call id on the AgentState o it captured.  A throw of spawn
\* rejects the promise with the state left as it is; the tool's execute
\* catches it and returns an error result.
Launch(id, name, o, task, local, check, launch) ==
  /\ heap' = [heap EXCEPT ![o] = RunReset(@, task, id)]
  /\ timers' = timers \cup {[id |-> id, obj |-> o, start |-> now]}
  /\ IF launch = "throw"
       THEN /\ calls' = [calls EXCEPT ![id] = NoCall]
            /\ Return(id, name, o, "threw", 1, 0, check, Null)
       ELSE /\ calls' = [calls EXCEPT ![id] =
                           [NoCall EXCEPT !.name = name, !.obj = o,
                                          !.pc = "child",
                                          !.local = local, !.check = check,
                                          !.proc = launch,
                                          !.resume = heap[o].sessionFile # Null,
                                          !.startTime = now]]
            /\ UNCHANGED settled

\* No state for the name: not found.
DispatchNotFound(name, amb) ==
  /\ nOps < MaxOps
  /\ StateOfName(name) = 0
  /\ nCalls' = nCalls + 1
  /\ nOps' = nOps + 1
  /\ Return(nCalls + 1, name, 0, "notfound", 1, 0, Null, Null)
  /\ UNCHANGED << agentStates, heap, timers, now, modelCheckCache, calls,
                  audits, disk, contextWindow,
                  succeeded, fnCall, git >>

\* The state is running: already running.
DispatchAlreadyRunning(name, amb) ==
  /\ nOps < MaxOps
  /\ StateOfName(name) # 0
  /\ AlreadyRunning(heap[StateOfName(name)])
  /\ nCalls' = nCalls + 1
  /\ nOps' = nOps + 1
  /\ Return(nCalls + 1, name, StateOfName(name), "already", 1, 0, Null, Null)
  /\ UNCHANGED << agentStates, heap, timers, now, modelCheckCache, calls,
                  audits, disk, contextWindow,
                  succeeded, fnCall, git >>

\* A local model with a cold cache: the call awaits checkOllamaModel.
DispatchProbe(name, amb) ==
  /\ nOps < MaxOps
  /\ StateOfName(name) # 0
  /\ LET o   == StateOfName(name)
         eff == EffectiveModel(heap[o].def, amb)
         mn  == parseModelString(eff).modelName
         id  == nCalls + 1
     IN  /\ ~AlreadyRunning(heap[o])
         /\ NeedsCheck(eff)
         /\ modelCheckCache[mn] = Null
         /\ calls' = [calls EXCEPT ![id] =
                        [NoCall EXCEPT !.name = name, !.obj = o,
                                       !.pc = "probe",
                                       !.task = TaskText(id), !.local = TRUE,
                                       !.modelName = mn]]
  /\ nCalls' = nCalls + 1
  /\ nOps' = nOps + 1
  /\ UNCHANGED << agentStates, heap, timers, now, modelCheckCache, settled,
                  audits, disk, contextWindow,
                  succeeded, fnCall, git >>

\* The capability result a call that does not await looks at.
CachedCheck(o, amb) ==
  LET eff == EffectiveModel(heap[o].def, amb)
  IN  IF NeedsCheck(eff)
        THEN modelCheckCache[parseModelString(eff).modelName] ELSE Null

\* A local model whose cached result fails the gate: blocked.
DispatchBlocked(name, amb) ==
  /\ nOps < MaxOps
  /\ StateOfName(name) # 0
  /\ LET o   == StateOfName(name)
         eff == EffectiveModel(heap[o].def, amb)
     IN  /\ ~AlreadyRunning(heap[o])
         /\ NeedsCheck(eff)
         /\ CachedCheck(o, amb) # Null
         /\ GateBlocks(CachedCheck(o, amb))
         /\ Return(nCalls + 1, name, o, "blocked", 1, 0, CachedCheck(o, amb),
                   Null)
  /\ nCalls' = nCalls + 1
  /\ nOps' = nOps + 1
  /\ UNCHANGED << agentStates, heap, timers, now, modelCheckCache, calls,
                  audits, disk, contextWindow,
                  succeeded, fnCall, git >>

\* No check is needed, or the cached result passes the gate: the run starts
\* and the child is spawned in the same synchronous stretch.
DispatchStart(name, amb, launch) ==
  /\ nOps < MaxOps
  /\ StateOfName(name) # 0
  /\ LET o   == StateOfName(name)
         eff == EffectiveModel(heap[o].def, amb)
         id  == nCalls + 1
     IN  /\ ~AlreadyRunning(heap[o])
         /\ NeedsCheck(eff) => CachedCheck(o, amb) # Null
         /\ ~GateBlocks(CachedCheck(o, amb))
         /\ Launch(id, name, o, TaskText(id), NeedsCheck(eff),
                   CachedCheck(o, amb), launch)
  /\ nCalls' = nCalls + 1
  /\ nOps' = nOps + 1
  /\ UNCHANGED << agentStates, now, modelCheckCache, audits,
                  disk, contextWindow,
                  succeeded, fnCall, git >>

\* checkOllamaModel settles for a waiting call: the result is stored or
\* not, and the call goes on from the gate with the state it captured.
ProbeBlocked(id, outcome) ==
  /\ calls[id].pc = "probe"
  /\ LET check == Some(ResultOf(calls[id].modelName, outcome))
     IN  /\ GateBlocks(check)
         /\ calls' = [calls EXCEPT ![id] = NoCall]
         /\ Return(id, calls[id].name, calls[id].obj, "blocked", 1, 0, check,
                   Null)
  /\ modelCheckCache' =
       CacheAfter(modelCheckCache, calls[id].modelName, outcome)
  /\ UNCHANGED << agentStates, heap, timers, now, nCalls, audits,
                  disk, contextWindow, nOps,
                  succeeded, fnCall, git >>

ProbeStart(id, outcome, launch) ==
  /\ calls[id].pc = "probe"
  /\ LET check == Some(ResultOf(calls[id].modelName, outcome))
     IN  /\ ~GateBlocks(check)
         /\ Launch(id, calls[id].name, calls[id].obj, calls[id].task, TRUE,
                   check, launch)
  /\ modelCheckCache' =
       CacheAfter(modelCheckCache, calls[id].modelName, outcome)
  /\ UNCHANGED << agentStates, now, nCalls, audits,
                  disk, contextWindow, nOps,
                  succeeded, fnCall, git >>

----------------------------------------------------------------------------
(* The child's stdout: newline-delimited JSON events *)

\* The stream is cut into tokens: "NL" is a newline, every other token is a
\* piece of text without a newline.  TOOL, TEXT_a, TEXT_nl and USAGE are
\* each one whole well-formed event, TOOL_head and TOOL_tail are the two
\* halves of a TOOL event, JUNK is text that is not JSON.  USAGE is a
\* message_end that reports one input token, USAGE_over one that reports
\* three, END an agent_end whose last assistant message reports one.
Tokens ==
  {"NL", "TOOL", "TOOL_head", "TOOL_tail", "TEXT_a", "TEXT_nl", "USAGE",
   "USAGE_over", "END", "JUNK"}

\* The reads ("data" chunks) a child's stdout delivers: whole lines, a line
\* cut before its newline, the newline alone, and a line that is not JSON
\* followed by a well-formed one.
ChunkShapes ==
  { <<"TOOL", "NL">>, <<"TEXT_a", "NL">>, <<"USAGE", "NL">>,
    <<"USAGE_over", "NL">>,
    <<"TOOL">>, <<"NL">>, <<"JUNK", "NL", "TOOL", "NL">>,
    <<"TOOL", "NL", "TOOL", "NL", "TOOL", "NL", "TEXT_a", "NL">> }

Event(type, delta, input) == [type |-> type, delta |-> delta, input |-> input]

\* JSON.parse(line) and the fields the handlers read: Null when it throws.
ParseLine(line) ==
  CASE line = <<"TOOL">> \/ line = <<"TOOL_head", "TOOL_tail">>
         -> Some(Event("tool_execution_start", EmptyStr, 0))
    [] line = <<"TEXT_a">>  -> Some(Event("text_delta", <<"a">>, 0))
    [] line = <<"TEXT_nl">> -> Some(Event("text_delta", <<"\n">>, 0))
    [] line = <<"USAGE">>   -> Some(Event("message_end", EmptyStr, 1))
    [] line = <<"USAGE_over">> -> Some(Event("message_end", EmptyStr, 3))
    [] line = <<"END">>     -> Some(Event("agent_end", EmptyStr, 1))
    [] OTHER                -> Null

\* buffer.split("\n") on tokens: the pieces between the newlines.
RECURSIVE SplitTokens(_)
SplitTokens(s) ==
  IF \A i \in 1..Len(s) : s[i] # "NL"
    THEN <<s>>
    ELSE LET i == CHOOSE j \in 1..Len(s) :
                    s[j] = "NL" /\ \A k \in 1..(j-1) : s[k] # "NL"
         IN  <<SubSeq(s, 1, i-1)>> \o SplitTokens(SubSeq(s, i+1, Len(s)))

\* A mutation of ApplyLine: a tool start is not counted.
ApplyLineNoTool(acc, line, ctxWin) ==
  LET ev == ParseLine(line)
  IN  IF line = <<>> \/ ev = Null THEN acc
      ELSE IF ev[1].type = "text_delta"
        THEN [st   |-> [acc.st EXCEPT
                          !.lastWork = LastNonBlankLine(acc.text \o ev[1].delta)],
              text |-> acc.text \o ev[1].delta]
      ELSE IF ev[1].type \in {"message_end", "agent_end"} /\ ctxWin > 0
        THEN [acc EXCEPT !.st.contextPct = (ev[1].input * 100) \div ctxWin]
      ELSE acc

\* One line of the "data" handler applied to [st, text]: the AgentState and
\* the joined textChunks.  A blank line and a line that does not parse
\* change nothing.  The percentage is exact for the inputs used here.
ApplyLine(acc, line, ctxWin) ==
  LET ev == ParseLine(line)
  IN  IF line = <<>> \/ ev = Null THEN acc
      ELSE IF ev[1].type = "text_delta"
        THEN [st   |-> [acc.st EXCEPT
                          !.lastWork = LastNonBlankLine(acc.text \o ev[1].delta)],
              text |-> acc.text \o ev[1].delta]
      ELSE IF ev[1].type = "tool_execution_start"
        THEN [acc EXCEPT !.st.toolCount = @ + 1]
      ELSE IF ev[1].type \in {"message_end", "agent_end"} /\ ctxWin > 0
        THEN [acc EXCEPT !.st.contextPct = (ev[1].input * 100) \div ctxWin]
      ELSE acc

\* A mutation of ApplyLines: a line that does not parse ends the loop.
RECURSIVE ApplyLinesStopAtJunk(_, _, _)
ApplyLinesStopAtJunk(acc, lines, ctxWin) ==
  IF lines = <<>> THEN acc
  ELSE IF Head(lines) # <<>> /\ ParseLine(Head(lines)) = Null THEN acc
  ELSE ApplyLinesStopAtJunk(ApplyLine(acc, Head(lines), ctxWin),
                            Tail(lines), ctxWin)

RECURSIVE ApplyLines(_, _, _)
ApplyLines(acc, lines, ctxWin) ==
  IF lines = <<>> THEN acc
  ELSE ApplyLines(ApplyLine(acc, Head(lines), ctxWin), Tail(lines), ctxWin)

\* A mutation of ReadChunk: what a read leaves unterminated is dropped.
ReadChunkNoBuffer(acc, chunk, ctxWin) ==
  LET pieces == SplitTokens(acc.buffer \o chunk)
      done   == ApplyLines([st |-> acc.st, text |-> acc.text],
                           SubSeq(pieces, 1, Len(pieces) - 1), ctxWin)
  IN  [st |-> done.st, text |-> done.text, buffer |-> <<>>]

\* The body of the "data" handler on [st, text, buffer]: the chunk is
\* appended to the buffer, the complete lines are applied in order, the
\* rest stays in the buffer.
ReadChunk(acc, chunk, ctxWin) ==
  LET pieces == SplitTokens(acc.buffer \o chunk)
      done   == ApplyLines([st |-> acc.st, text |-> acc.text],
                           SubSeq(pieces, 1, Len(pieces) - 1), ctxWin)
  IN  [st |-> done.st, text |-> done.text, buffer |-> pieces[Len(pieces)]]

\* proc.stdout.on("data") for the child of call id.
StdoutData(id, chunk) ==
  /\ calls[id].pc = "child"
  /\ calls[id].proc = "ok"
  /\ nOps < MaxOps
  /\ LET o   == calls[id].obj
         acc == ReadChunk([st |-> heap[o], text |-> calls[id].textChunks,
                           buffer |-> calls[id].buffer],
                          chunk, contextWindow)
     IN  /\ heap' = [heap EXCEPT ![o] = acc.st]
         /\ calls' = [calls EXCEPT ![id] = [@ EXCEPT
                         !.stream = @ \o chunk,
                         !.buffer = acc.buffer,
                         !.textChunks = acc.text]]
  /\ nOps' = nOps + 1
  /\ UNCHANGED << agentStates, timers, now, modelCheckCache, nCalls, settled,
                  audits, disk, contextWindow,
                  succeeded, fnCall, git >>

----------------------------------------------------------------------------
(* The child's end *)

\* The session artifact the child of call id works on.
ArtifactOf(id) == SessionFileOf(heap[calls[id].obj].def.name)

\* The exit codes "close" reports for a child that ran: 0, non-zero, and
\* null for a child ended by a signal.
ExitCodes == {Some(0), Some(1), Null}
\* The "close" that follows the "error" of a failed spawn: none, or one
\* with the negative errno as code.
SpawnFailCloses == {Null, Some(Some(-2))}

\* The transcript after the leftover buffer was looked at: only a text
\* delta is taken from it.
TextAtClose(rec) ==
  LET ev == ParseLine(rec.buffer)
  IN  IF rec.buffer # <<>> /\ ev # Null /\ ev[1].type = "text_delta"
        THEN rec.textChunks \o ev[1].delta
        ELSE rec.textChunks

\* proc.on("close"), on the AgentState the call captured.
CloseState(st, rec, code) ==
  [st EXCEPT !.elapsed = now - rec.startTime,
             !.status = StatusOfExit(code),
             !.sessionFile = IF code = Some(0)
                               THEN Some(SessionFileOf(st.def.name)) ELSE @,
             !.lastWork = LastNonBlankLine(TextAtClose(rec))]

\* A mutation of ProcClose: a child that did not exit with 0 is started
\* again for the same call.
ProcCloseRetry(id, code, wrote) ==
  /\ calls[id].pc = "child"
  /\ calls[id].proc = "ok"
  /\ code = Some(0) => wrote
  /\ LET o == calls[id].obj
     IN  /\ timers' = ClearInterval(timers, heap[o].timer)
         /\ heap' = [heap EXCEPT ![o] = CloseState(@, calls[id], code)]
         /\ Return(id, calls[id].name, o, "closed", ExitIndicator(code),
                   now - calls[id].startTime, Null, Some(code))
         /\ disk' = IF wrote THEN disk \cup {ArtifactOf(id)} ELSE disk
         /\ succeeded' = IF code = Some(0)
                           THEN succeeded \cup {ArtifactOf(id)} ELSE succeeded
  /\ calls' = [calls EXCEPT ![id] =
                 IF code = Some(0) THEN NoCall
                 ELSE [@ EXCEPT !.stream = <<>>, !.buffer = <<>>,
                                !.textChunks = EmptyStr]]
  /\ UNCHANGED << agentStates, now, modelCheckCache, nCalls, audits,
                  contextWindow, nOps, fnCall, git >>

\* "close" of a child that ran: the whole handler.  wrote tells whether the
\* child has left its session artifact on disk by the time it ends; a child
\* that exits with 0 has.
ProcClose(id, code, wrote) ==
  /\ calls[id].pc = "child"
  /\ calls[id].proc = "ok"
  /\ code = Some(0) => wrote
  /\ LET o == calls[id].obj
     IN  /\ timers' = ClearInterval(timers, heap[o].timer)
         /\ heap' = [heap EXCEPT ![o] = CloseState(@, calls[id], code)]
         /\ Return(id, calls[id].name, o, "closed", ExitIndicator(code),
                   now - calls[id].startTime, Null, Some(code))
         /\ disk' = IF wrote THEN disk \cup {ArtifactOf(id)} ELSE disk
         /\ succeeded' = IF code = Some(0)
                           THEN succeeded \cup {ArtifactOf(id)} ELSE succeeded
  /\ calls' = [calls EXCEPT ![id] = NoCall]
  /\ UNCHANGED << agentStates, now, modelCheckCache, nCalls, audits,
                  contextWindow, nOps, fnCall, git >>

\* proc.on("error"): the spawn failed.
ErrorState(st) == [st EXCEPT !.status = "error", !.lastWork = SpawnErrWork]

\* The events of a failed spawn.  Node emits "error" and then, once the
\* stdio streams are destroyed and before any other I/O is handled, "close"
\* with the negative errno as code: the "close" handler runs on what the
\* "error" handler left, and its resolve() has no effect on the settled
\* promise.  close = Null stands for a runtime that emits no "close".
ProcError(id, close) ==
  /\ calls[id].pc = "child"
  /\ calls[id].proc = "fail"
  /\ LET o       == calls[id].obj
         erred   == ErrorState(heap[o])
         cleared == ClearInterval(timers, heap[o].timer)
     IN  /\ timers' = cleared
         /\ heap' = [heap EXCEPT ![o] =
                       IF close = Null THEN erred
                       ELSE CloseState(erred, calls[id], close[1])]
         /\ Return(id, calls[id].name, o, "spawnerr", 1,
                   now - calls[id].startTime, Null, close)
  /\ calls' = [calls EXCEPT ![id] = NoCall]
  /\ UNCHANGED << agentStates, now, modelCheckCache, nCalls, audits,
                  disk, contextWindow, nOps,
                  succeeded, fnCall, git >>

\* The child creates its session artifact while it runs.
ChildWritesSession(id) ==
  /\ calls[id].pc = "child"
  /\ calls[id].proc = "ok"
  /\ ArtifactOf(id) \notin disk
  /\ nOps < MaxOps
  /\ nOps' = nOps + 1
  /\ disk' = disk \cup {ArtifactOf(id)}
  /\ UNCHANGED << agentStates, heap, timers, now, modelCheckCache, nCalls,
                  calls, settled, audits, contextWindow,
                  succeeded, fnCall, git >>

\* A mutation of Tick: the firing writes the elapsed time of every agent.
TickAllAgents(t) ==
  /\ t \in timers
  /\ nOps < MaxOps
  /\ nOps' = nOps + 1
  /\ now' = now + 1
  /\ heap' = [o \in 1..Len(heap) |->
                [heap[o] EXCEPT !.elapsed = now + 1 - t.start]]
  /\ UNCHANGED << agentStates, timers, modelCheckCache, nCalls, calls,
                  settled, audits, disk, contextWindow,
                  succeeded, fnCall, git >>

\* One firing of an active interval: a second has passed since the last
\* firing of any.
Tick(t) ==
  /\ t \in timers
  /\ nOps < MaxOps
  /\ nOps' = nOps + 1
  /\ now' = now + 1
  /\ heap' = [heap EXCEPT ![t.obj] = [@ EXCEPT !.elapsed = now + 1 - t.start]]
  /\ UNCHANGED << agentStates, timers, modelCheckCache, nCalls, calls,
                  settled, audits, disk, contextWindow,
                  succeeded, fnCall, git >>

----------------------------------------------------------------------------
(* Team activation and its audit *)

\* The /agents-team command: activateTeam, then auditTeamModels is started.
ActivateTeam(teamName) ==
  /\ nOps < MaxOps
  /\ LET act == activateTeam(teamName, agentStates, heap, disk)
     IN  /\ agentStates' = act.roster
         /\ heap' = act.heap
         /\ audits' = Append(audits,
              StartAudit(teamName, act.roster, act.heap, modelCheckCache))
  /\ nOps' = nOps + 1
  /\ UNCHANGED << timers, now, modelCheckCache, nCalls, calls, settled, disk,
                  contextWindow,
                  succeeded, fnCall, git >>

\* checkOllamaModel settles for one agent of an audit.
AuditProbeSettle(a, k, outcome) ==
  /\ a \in 1..Len(audits)
  /\ k \in audits[a].pending
  /\ nOps < MaxOps
  /\ nOps' = nOps + 1
  /\ modelCheckCache' =
       CacheAfter(modelCheckCache,
                  parseModelString(DefOfKey(k).model).modelName, outcome)
  /\ LET result   == ResultOf(parseModelString(DefOfKey(k).model).modelName,
                              outcome)
         pending  == audits[a].pending \ {k}
         warnings == audits[a].warnings
                       \cup { <<k, w>> : w \in AuditClassify(result) }
     IN  audits' = [audits EXCEPT ![a] =
                      [ team     |-> @.team,
                        pending  |-> pending,
                        seen     |-> @.seen \cup { <<k, outcome>> },
                        warnings |-> warnings,
                        notices  |-> @.notices
                          + (IF NoticeDue(pending, warnings) THEN 1 ELSE 0) ]]
  /\ UNCHANGED << agentStates, heap, timers, now, nCalls, calls, settled,
                  disk, contextWindow, succeeded, fnCall, git >>

----------------------------------------------------------------------------
(* The specification *)

Next ==
  \/ \E name \in DispatchNames, amb \in AmbientModels :
       \/ DispatchNotFound(name, amb)
       \/ DispatchAlreadyRunning(name, amb)
       \/ DispatchProbe(name, amb)
       \/ DispatchBlocked(name, amb)
       \/ \E launch \in LaunchOutcomes : DispatchStart(name, amb, launch)
  \/ \E id \in 1..MaxOps, outcome \in ProbeOutcomes :
       \/ ProbeBlocked(id, outcome)
       \/ \E launch \in LaunchOutcomes : ProbeStart(id, outcome, launch)
  \/ \E id \in 1..MaxOps, chunk \in ChunkShapes : StdoutData(id, chunk)
  \/ \E id \in 1..MaxOps, code \in ExitCodes, wrote \in BOOLEAN :
       ProcClose(id, code, wrote)
  \/ \E id \in 1..MaxOps, close \in SpawnFailCloses : ProcError(id, close)
  \/ \E id \in 1..MaxOps : ChildWritesSession(id)
  \/ \E t \in timers : Tick(t)
  \/ \E teamName \in TeamNames : ActivateTeam(teamName)
  \/ \E a \in 1..(MaxOps + 1), k \in Keys, outcome \in ProbeOutcomes :
       AuditProbeSettle(a, k, outcome)

Spec == Init /\ [][Next]_vars

\* The audits alone: a session that starts on a team of two agents with
\* local models, team changes, and the answers of the backend in full.
AuditInit == InitTeam("locals") /\ fnCall = NoFnCall

AuditNext ==
  \/ \E teamName \in AuditTeamNames : ActivateTeam(teamName)
  \/ \E a \in 1..(MaxOps + 1), k \in Keys, outcome \in AuditOutcomes :
       AuditProbeSettle(a, k, outcome)

AuditSpec == AuditInit /\ [][AuditNext]_vars

\* The /agents-check command: the cache is emptied; when an agent of the
\* table carries a local model override, auditTeamModels is run on the
\* table as it is (every check is a query, the cache being empty).
AgentsCheck ==
  /\ nOps < MaxOps
  /\ nOps' = nOps + 1
  /\ modelCheckCache' = [m \in ModelNames |-> Null]
  /\ audits' =
       IF AuditChecks(agentStates, heap) = {} THEN audits
       ELSE Append(audits,
                   StartAudit(audits[Len(audits)].team, agentStates, heap,
                              [m \in ModelNames |-> Null]))
  /\ UNCHANGED << agentStates, heap, timers, now, nCalls, calls, settled,
                  disk, contextWindow, succeeded, fnCall, git >>

\* The dispatcher with the /agents-check command.
CacheNext == Next \/ AgentsCheck

CacheSpec == Init /\ [][CacheNext]_vars

----------------------------------------------------------------------------
(* The git status footer (extensions/git-status.ts) *)

\* The refreshes started in all, and the changes made to the working tree.
MaxRefreshes == 3
MaxEdits == 2

\* A call of refresh(cwd) whose fetchGitStatus has not settled: the handler
\* that made it, whether git has run, and what fetchGitStatus then gives,
\* the status of the working tree git has read or null.
Fetch(id, origin) == [id |-> id, origin |-> origin, ran |-> FALSE, result |-> Null]

\* refresh(cwd) up to its await: fetchGitStatus is started.
StartRefresh(g, origin) ==
  [g EXCEPT !.started = @ + 1,
            !.fetches = @ \cup {Fetch(g.started + 1, origin)}]

\* A handler calls refresh.
Refreshes(origin) ==
  /\ git.started < MaxRefreshes
  /\ git' = StartRefresh(git, origin)
  /\ UNCHANGED << dispatcherVars, fnCall >>

\* session_start, up to the await of the initial fetch.
GitSessionStart ==
  /\ git.session = "none"
  /\ git.started < MaxRefreshes
  /\ git' = [StartRefresh(git, "session_start") EXCEPT !.session = "starting"]
  /\ UNCHANGED << dispatcherVars, fnCall >>

\* The 5 s interval fires.  The fetch of the poll before has settled by
\* then: git is given 3 s.
GitPoll ==
  /\ git.pollTimer
  /\ \A f \in git.fetches : f.origin # "poll"
  /\ Refreshes("poll")

\* tool_execution_end
GitToolExecutionEnd == git.session = "running" /\ Refreshes("tool_execution_end")

\* The /gitstatus command, up to its await.
GitStatusCommand == git.session = "running" /\ Refreshes("gitstatus")

\* The footer's onBranchChange callback, up to its await.
GitBranchChange == git.footer /\ Refreshes("branch")

\* git status runs for a fetch and reads the working tree as it is then, or
\* fails (not a repository, the 3 s timeout): fetchGitStatus gives null.
GitRuns(id, ok) ==
  /\ \E f \in git.fetches :
       /\ f.id = id
       /\ ~f.ran
       /\ git' = [git EXCEPT !.fetches =
                    (@ \ {f}) \cup
                      {[f EXCEPT !.ran = TRUE,
                                 !.result = IF ok THEN Some(git.tree) ELSE Null]}]
  /\ UNCHANGED << dispatcherVars, fnCall >>

\* The await of a refresh resumes: status is assigned what the fetch gave,
\* and the handler that called refresh goes on to its end.
RefreshSettles(id) ==
  /\ \E f \in git.fetches :
       /\ f.id = id
       /\ f.ran
       /\ git' = [git EXCEPT
            !.status    = f.result,
            !.stored    = f.id,
            !.fetches   = @ \ {f},
            !.pollTimer = IF f.origin = "session_start" THEN TRUE ELSE @,
            !.footer    = IF f.origin = "session_start" THEN TRUE ELSE @,
            !.session   = IF f.origin = "session_start" THEN "running" ELSE @,
            !.notice    = IF f.origin # "gitstatus" THEN @
                          ELSE IF f.result = Null THEN "error" ELSE "info"]
  /\ UNCHANGED << dispatcherVars, fnCall >>

\* session_shutdown: the poll is stopped.
GitSessionShutdown ==
  /\ git.session = "running"
  /\ git' = [git EXCEPT !.pollTimer = FALSE, !.session = "ended"]
  /\ UNCHANGED << dispatcherVars, fnCall >>

\* A file of the working tree is changed.
WorktreeChanges ==
  /\ git.tree < MaxEdits
  /\ git' = [git EXCEPT !.tree = @ + 1]
  /\ UNCHANGED << dispatcherVars, fnCall >>

GitNext ==
  \/ GitSessionStart
  \/ GitPoll
  \/ GitToolExecutionEnd
  \/ GitStatusCommand
  \/ GitBranchChange
  \/ \E id \in 1..MaxRefreshes, ok \in BOOLEAN : GitRuns(id, ok)
  \/ \E id \in 1..MaxRefreshes : RefreshSettles(id)
  \/ GitSessionShutdown
  \/ WorktreeChanges

GitSpec == Init /\ [][GitNext]_vars

----------------------------------------------------------------------------
(* What the properties are stated on *)

CallIds == 1..MaxOps

\* The child of call id was started and has not ended.
LiveChild(id) == calls[id].pc = "child" /\ calls[id].proc = "ok"

\* A capability result that is reachable and lacks tool support.
Incapable(check) == check # Null /\ check[1].reachable /\ ~check[1].hasTools

\* The capability result the gate of call id looked at, after the step in
\* which the call left the probe.
CheckAfterProbe(id) ==
  IF calls'[id].pc = "child" THEN calls'[id].check ELSE settled'.check

\* What a child has written, read off its whole stream: the number of
\* newline-terminated lines that are a tool start, and the text of all its
\* text deltas.
ToolLines(stream) ==
  LET pieces == SplitTokens(stream)
  IN  Cardinality({ i \in 1..(Len(pieces) - 1) :
                      /\ ParseLine(pieces[i]) # Null
                      /\ ParseLine(pieces[i])[1].type = "tool_execution_start" })

RECURSIVE TextOfPieces(_)
TextOfPieces(pieces) ==
  IF pieces = <<>> THEN EmptyStr
  ELSE LET ev == ParseLine(Head(pieces))
       IN  (IF ev # Null /\ ev[1].type = "text_delta" THEN ev[1].delta
            ELSE EmptyStr) \o TextOfPieces(Tail(pieces))

TextOf(stream) == TextOfPieces(SplitTokens(stream))

\* The step ends, with exit code 0, the child of call id, which ran on a
\* model that is not local.
ExitsZeroNonLocal(id) ==
  /\ LiveChild(id)
  /\ ~calls[id].local
  /\ calls'[id].pc = "none"
  /\ settled'.closeCode = Some(Some(0))

----------------------------------------------------------------------------
(* The properties *)

\* C1: single-flight.  At most one child process is in flight per agent
\* state, in every interleaving of dispatch calls, probe completions and
\* child events, a cold probe cache included.
C1_SingleFlight ==
  \A i, j \in CallIds :
    (LiveChild(i) /\ LiveChild(j) /\ calls[i].obj = calls[j].obj) => i = j

\* C2: pre-flight gate.  No call whose capability result is reachable
\* without tool support has a child, and the step in which such a call
\* returns gives a failure result, launches nothing and leaves every agent
\* state, ticker and the roster as they were.
C2_PreflightGate ==
  [][ /\ \A id \in CallIds :
           calls'[id].pc = "child" => ~Incapable(calls'[id].check)
      /\ (settled'.n # settled.n /\ Incapable(settled'.check)) =>
           /\ settled'.kind = "blocked"
           /\ settled'.exitCode # 0
           /\ heap' = heap
           /\ timers' = timers
           /\ agentStates' = agentStates
           /\ \A id \in CallIds :
                calls'[id].pc = "child" => calls[id].pc = "child"
    ]_vars

\* A call was blocked on a reachable model without tool support, and its
\* agent is idle and has never run.
C2_Witness ==
  /\ settled.kind = "blocked"
  /\ Incapable(settled.check)
  /\ heap[settled.obj].status = "idle"
  /\ heap[settled.obj].runCount = 0
  /\ \A id \in CallIds : calls[id].pc # "child"

\* C3: a dispatch call made against an agent state whose status is running
\* returns an already-running failure in the same step, and that step
\* changes no agent state, no ticker, no call in flight, and neither the
\* roster, the probe cache nor the session artifacts.
C3_RejectRunning ==
  [][ nCalls' # nCalls =>
        LET id == nCalls'
            o  == IF calls'[id].pc # "none" THEN calls'[id].obj
                  ELSE settled'.obj
        IN  (o # 0 /\ heap[o].status = "running") =>
              /\ settled'.n # settled.n
              /\ settled'.id = id
              /\ settled'.kind = "already"
              /\ settled'.exitCode # 0
              /\ heap' = heap
              /\ timers' = timers
              /\ calls' = calls
              /\ agentStates' = agentStates
              /\ modelCheckCache' = modelCheckCache
              /\ disk' = disk
    ]_vars

\* A call was rejected as already running while the run it met is still in
\* flight, counted once, with its ticker.
C3_Witness ==
  /\ settled.kind = "already"
  /\ heap[settled.obj].status = "running"
  /\ heap[settled.obj].runCount = 1
  /\ \E id \in CallIds :
       /\ LiveChild(id)
       /\ calls[id].obj = settled.obj
       /\ \E t \in timers : t.id = id

\* C4: exit reconciliation.  The step in which the child of a run exits
\* leaves the status done exactly when the exit code is 0 and error
\* otherwise, and the result it returns has exit indicator 0 exactly when
\* the exit code is 0.
C4_ExitReconciliation ==
  [][ \A id \in CallIds :
        (LiveChild(id) /\ calls'[id].pc = "none") =>
          /\ settled'.id = id
          /\ settled'.kind = "closed"
          /\ settled'.closeCode # Null
          /\ heap'[calls[id].obj].status \in {"done", "error"}
          /\ heap'[calls[id].obj].status = "done"
               <=> settled'.closeCode[1] = Some(0)
          /\ settled'.exitCode = 0 <=> settled'.closeCode[1] = Some(0)
    ]_vars

\* A child ended without an exit code: the status is error and the exit
\* indicator is not 0.
C4_Witness ==
  /\ settled.kind = "closed"
  /\ settled.closeCode = Some(Null)
  /\ heap[settled.obj].status = "error"
  /\ settled.exitCode # 0

\* C5: status lifecycle.  Every change of an agent state's status is one of
\* idle->running, done->running, error->running, running->done,
\* running->error.
C5_StatusLifecycle ==
  [][ \A o \in 1..Len(heap) :
        heap'[o].status # heap[o].status =>
          << heap[o].status, heap'[o].status >> \in
            { <<"idle", "running">>, <<"done", "running">>,
              <<"error", "running">>, <<"running", "done">>,
              <<"running", "error">> }
    ]_vars

\* C6: launch failure.  The step in which a call returns because its child
\* could not be started, by an "error" event or by a throw of spawn, leaves
\* the status error, the failure message as the last observed fragment and
\* no ticker of that call, returns a failure result, and runs no exit
\* reconciliation.
C6_LaunchFailure ==
  [][ (settled'.n # settled.n /\ settled'.kind \in {"threw", "spawnerr"}) =>
        /\ heap'[settled'.obj].status = "error"
        /\ heap'[settled'.obj].lastWork = SpawnErrWork
        /\ \A t \in timers' : t.id # settled'.id
        /\ settled'.exitCode # 0
        /\ settled'.closeCode = Null
    ]_vars

\* C7: no agent stays running after its child is gone.  An agent state
\* whose status is running has a call with a child that is still to exit or
\* to fail, the event that takes it to done or error.
C7_RunningHasChild ==
  \A o \in 1..Len(heap) :
    heap[o].status = "running" =>
      \E id \in CallIds : calls[id].pc = "child" /\ calls[id].obj = o

\* C8: unreachable-host outcomes are never cached.  Every entry of the
\* probe cache has reachable = true, and the step in which a call's probe
\* settles with an unreachable result leaves the cache as it was, so the
\* next lookup of the model misses.
C8_UnreachableNeverCached ==
  [][ /\ \A m \in ModelNames :
           modelCheckCache'[m] # Null => modelCheckCache'[m][1].reachable
      /\ \A id \in CallIds :
           (calls[id].pc = "probe" /\ calls'[id].pc # "probe") =>
             (~CheckAfterProbe(id)[1].reachable =>
                modelCheckCache' = modelCheckCache)
    ]_vars

\* The probe of the session-start audit has settled with nothing stored,
\* and a later dispatch of the same model is querying the backend again.
C8_Witness ==
  /\ audits[1].pending = {}
  /\ \E id \in CallIds :
       /\ calls[id].pc = "probe"
       /\ modelCheckCache[calls[id].modelName] = Null

\* C9: session-artifact exclusivity.  The session artifact of an identity is
\* in use by at most one live child at a time.
C9_ArtifactExclusive ==
  \A i, j \in CallIds :
    (LiveChild(i) /\ LiveChild(j) /\ ArtifactOf(i) = ArtifactOf(j)) => i = j

CompleteLines(stream) ==
  SubSeq(SplitTokens(stream), 1, Len(SplitTokens(stream)) - 1)

\* The lines the read of this step completed for call id.
LinesRead(id) ==
  SubSeq(CompleteLines(calls'[id].stream),
         Len(CompleteLines(calls[id].stream)) + 1,
         Len(CompleteLines(calls'[id].stream)))

\* The well-formed events of the given type among lines.
EventsOfType(lines, type) ==
  SelectSeq(lines, LAMBDA l : ParseLine(l) # Null /\ ParseLine(l)[1].type = type)

\* C11: a streamed line that does not parse is skipped.  A read changes the
\* agent state by the well-formed events of the lines it completes and by
\* nothing else: the status stays, toolCount grows by the tool starts,
\* lastWork and contextPct change only by a text delta and a usage report,
\* whatever malformed lines stand before or between them.
C11_MalformedSkipped ==
  [][ \A id \in CallIds :
        (LiveChild(id) /\ nOps' # nOps
                       /\ calls'[id].stream # calls[id].stream) =>
          LET o     == calls[id].obj
              lines == LinesRead(id)
          IN  /\ LiveChild(id)'
              /\ heap'[o].status = heap[o].status
              /\ heap'[o].toolCount = heap[o].toolCount
                   + Len(EventsOfType(lines, "tool_execution_start"))
              /\ heap'[o].lastWork =
                   IF EventsOfType(lines, "text_delta") = <<>>
                     THEN heap[o].lastWork
                     ELSE LastNonBlankLine(
                            TextOfPieces(CompleteLines(calls'[id].stream)))
              /\ EventsOfType(lines, "message_end") = <<>> =>
                   heap'[o].contextPct = heap[o].contextPct
    ]_vars

\* A child has written a line that is not JSON and then a tool start: the
\* run goes on and the tool start was counted.
C11_Witness ==
  \E id \in CallIds :
    /\ LiveChild(id)
    /\ calls[id].stream = <<"JUNK", "NL", "TOOL", "NL">>
    /\ heap[calls[id].obj].status = "running"
    /\ heap[calls[id].obj].toolCount = 1
    /\ heap[calls[id].obj].lastWork = EmptyStr
    /\ heap[calls[id].obj].contextPct = 0

\* The agent states a step changes.
Changed == { p \in 1..Len(heap) : heap'[p] # heap[p] }

\* C12: dispatches to different agents are independent.  An event of a
\* call's child (a read, its exit, its failure) changes no agent state but
\* the one the call runs on, a tick changes at most the state its ticker
\* was set for, and a call is rejected as already running only when the
\* state it names is itself running.
C12_Independence ==
  [][ /\ \A id \in CallIds :
           (calls[id].pc = "child" /\ calls'[id] # calls[id]) =>
             Changed \subseteq {calls[id].obj}
      /\ now' # now =>
           /\ Cardinality(Changed) <= 1
           /\ \A p \in Changed : \E t \in timers : t.obj = p
      /\ (settled'.n # settled.n /\ settled'.kind = "already") =>
           heap[settled'.obj].status = "running"
    ]_vars

\* Two agents run at once, each with a live child of its own.
C12_Witness ==
  \E i, j \in CallIds :
    /\ LiveChild(i) /\ LiveChild(j)
    /\ calls[i].obj # calls[j].obj
    /\ heap[calls[i].obj].status = "running"
    /\ heap[calls[j].obj].status = "running"
    /\ heap[calls[i].obj].def # heap[calls[j].obj].def

\* C13: session-handle invariant.  An agent of the roster has a session
\* handle exactly when a run of its identity has exited with 0, and a child
\* was launched with the resume flag only if such a run went before.
C13_SessionHandle ==
  /\ \A k \in Keys :
       agentStates[k] # 0 =>
         (heap[agentStates[k]].sessionFile # Null
            <=> SessionFileOf(heap[agentStates[k]].def.name) \in succeeded)
  /\ \A id \in CallIds :
       (calls[id].pc = "child" /\ calls[id].resume) =>
         ArtifactOf(id) \in succeeded

\* The members of team T that resolve, case-insensitively, against the
\* loaded definitions, by their keys.
Resolved(T) ==
  { k \in { ToLowerCase(teams[T][i]) : i \in DOMAIN teams[T] } :
      \E d \in allAgentDefs : ToLowerCase(d.name) = k }

\* C14: team activation.  Right after the activation of team T the table
\* holds a state for exactly the members of T that resolve against the
\* loaded definitions, each a state of its own created by this activation,
\* of the member's definition, idle and with zero counters; no state of the
\* table before is left in it.
C14_TeamActivation ==
  [][ Len(audits') > Len(audits) =>
        LET T == audits'[Len(audits')].team
        IN  /\ { k \in Keys : agentStates'[k] # 0 } = Resolved(T)
            /\ \A k \in Resolved(T) :
                 LET o == agentStates'[k]
                 IN  /\ o > Len(heap) /\ o <= Len(heap')
                     /\ ToLowerCase(heap'[o].def.name) = k
                     /\ heap'[o].status = "idle"
                     /\ heap'[o].task = EmptyStr
                     /\ heap'[o].toolCount = 0
                     /\ heap'[o].elapsed = 0
                     /\ heap'[o].contextPct = 0
                     /\ heap'[o].runCount = 0
                     /\ \A k2 \in Resolved(T) \ {k} : agentStates'[k2] # o
    ]_vars

\* Team solo ("Scout", "ghost") was activated while scout of the team
\* before was running: the table holds a new idle scout and nothing else.
C14_Witness ==
  /\ Len(audits) = 2
  /\ audits[2].team = "solo"
  /\ agentStates["builder"] = 0
  /\ agentStates["scout"] = 3
  /\ Len(heap) = 3
  /\ heap[3].status = "idle"
  /\ heap[1].status = "running"

\* The agent name the call made in this step was given.
NameDispatched ==
  IF calls'[nCalls'].pc # "none" THEN calls'[nCalls'].name ELSE settled'.name

\* The roster holds a state for the name, compared without case.
InRoster(name) ==
  \E k \in Keys : agentStates[k] # 0 /\ k = ToLowerCase(name)

\* C15: a dispatch call is answered not-found exactly when the roster holds
\* no state for the name it gives, and that step has no effect: no agent
\* state, ticker or call in flight changes, no probe is started and neither
\* the roster, the probe cache, the audits nor the artifacts change.
C15_NotFound ==
  [][ nCalls' # nCalls =>
        /\ ~InRoster(NameDispatched) <=>
             (settled'.n # settled.n /\ settled'.kind = "notfound")
        /\ ~InRoster(NameDispatched) =>
             /\ settled'.id = nCalls'
             /\ settled'.exitCode # 0
             /\ heap' = heap
             /\ timers' = timers
             /\ calls' = calls
             /\ agentStates' = agentStates
             /\ modelCheckCache' = modelCheckCache
             /\ audits' = audits
             /\ disk' = disk
    ]_vars

\* A call named builder, which is defined but not in the active team, and
\* was answered not-found.
C15_Witness ==
  /\ settled.kind = "notfound"
  /\ settled.name = "builder"
  /\ agentStates["builder"] = 0
  /\ \A id \in CallIds : calls[id].pc = "none"
  /\ \A o \in 1..Len(heap) : heap[o].status = "idle"

\* The agent state the call made in this step names, 0 if none.
StateDispatched ==
  IF calls'[nCalls'].pc # "none" THEN calls'[nCalls'].obj ELSE settled'.obj

\* Whatever the dispatcher's model is, the model a run of def uses has no
\* backend or one that is not locally hosted.
CloudOnly(def) ==
  \A amb \in AmbientModels :
    LET provider == parseModelString(EffectiveModel(def, amb)).provider
    IN  provider = "" \/ ToLowerCase(provider) \notin LOCAL_PROVIDERS

\* C16: cloud backends are never probed.  A dispatch call to an agent whose
\* model is not on a local backend starts no probe, leaves the probe cache
\* as it is, is not rejected by the gate and looks at no capability result;
\* and no audit has a probe in flight for such an agent.
C16_CloudNeverProbed ==
  [][ /\ nCalls' # nCalls =>
           LET id == nCalls'
               o  == StateDispatched
           IN  (o # 0 /\ CloudOnly(heap[o].def)) =>
                 /\ calls'[id].pc # "probe"
                 /\ calls'[id].check = Null
                 /\ modelCheckCache' = modelCheckCache
                 /\ settled'.n # settled.n =>
                      (settled'.kind # "blocked" /\ settled'.check = Null)
      /\ \A a \in 1..Len(audits') :
           \A k \in audits'[a].pending : ~CloudOnly(DefOfKey(k))
    ]_vars

\* A run of scout, which inherits the dispatcher's model, was started with
\* no capability result, the cache is empty and the only probe of the audit
\* is that of builder.
C16_Witness ==
  /\ \E id \in CallIds :
       /\ LiveChild(id)
       /\ heap[calls[id].obj].def.name = "scout"
       /\ calls[id].check = Null
  /\ \A m \in ModelNames : modelCheckCache[m] = Null
  /\ audits[1].pending = {"builder"}

\* C17: an unreachable probe host never blocks a dispatch.  The step in
\* which the probe of a waiting call settles with reachable = false takes
\* the agent to running, counts the run, sets the ticker and launches the
\* child (or meets the throw of the launch call); the call is not answered
\* as blocked.
C17_UnreachableProceeds ==
  [][ \A id \in CallIds :
        (/\ calls[id].pc = "probe"
         /\ calls'[id].pc # "probe"
         /\ ~CheckAfterProbe(id)[1].reachable) =>
          LET o == calls[id].obj
          IN  /\ heap'[o].status = "running"
              /\ heap'[o].task = calls[id].task
              /\ heap'[o].runCount = heap[o].runCount + 1
              /\ \E t \in timers' : t.id = id /\ t.obj = o
              /\ \/ calls'[id].pc = "child"
                 \/ settled'.id = id /\ settled'.kind = "threw"
    ]_vars

\* A run whose probe found the host unreachable has a live child.
C17_Witness ==
  \E id \in CallIds :
    /\ LiveChild(id)
    /\ calls[id].check # Null
    /\ ~calls[id].check[1].reachable
    /\ heap[calls[id].obj].status = "running"
    /\ heap[calls[id].obj].runCount = 1

\* C18: team audit.  In every audit the aggregate notification has been
\* shown at most once, and only when no probe the audit started is still in
\* flight, in whatever order the probes settle.
C18_AuditNotice ==
  \A a \in 1..Len(audits) :
    /\ audits[a].notices <= 1
    /\ audits[a].notices >= 1 => audits[a].pending = {}
    /\ (audits[a].pending = {} /\ audits[a].warnings # {}) =>
         audits[a].notices = 1

\* The audit of the session start made two probes, both have settled with
\* a finding, and the notification was shown once.
C18_Witness ==
  /\ audits[1].pending = {}
  /\ Cardinality(audits[1].seen) = 2
  /\ \E w1, w2 \in audits[1].warnings : w1[1] # w2[1]
  /\ audits[1].notices = 1

\* C19: audit classification.  For every agent an audit has classified:
\* an unreachable host gave an advisory, a model that is not installed a
\* remediation advisory, an installed model without tool support a
\* blocking advisory, a model with tool support and a parameter size below
\* MIN_RELIABLE_PARAMS_B a cautionary advisory, an available update an
\* informational advisory.
C19_AuditClassification ==
  \A a \in 1..Len(audits) :
    \A s \in audits[a].seen :
      LET k == s[1]
          b == Backend(s[2])
          has(kind) == <<k, kind>> \in audits[a].warnings
      IN  /\ ~b.answers => has("unreachable")
          /\ (b.answers /\ ~b.installed) => has("notfound")
          /\ (b.answers /\ b.installed /\ "tools" \notin b.capabilities) =>
               has("BLOCK")
          /\ (b.answers /\ b.installed /\ "tools" \in b.capabilities
                /\ b.parameterSizeB < MIN_RELIABLE_PARAMS_B) => has("WARN")
          /\ (b.answers /\ b.installed /\ b.newer) => has("UPDATE")

\* C20: a failed run is never retried.  A child is launched only in a step
\* of the dispatch call it belongs to, the call itself or its continuation
\* after the probe; a call that has returned has no child again; and the
\* step in which a run ends launches nothing.
C20_NoRetry ==
  [][ /\ \A id \in CallIds :
           (calls'[id].pc = "child" /\ calls[id].pc # "child") =>
             \/ calls[id].pc = "probe"
             \/ nCalls' = id /\ nCalls = id - 1
      /\ (settled'.n # settled.n
            /\ settled'.kind \in {"closed", "spawnerr", "threw"}) =>
           /\ calls'[settled'.id].pc = "none"
           /\ \A id \in CallIds \ {settled'.id} : calls'[id] = calls[id]
    ]_vars

\* A run ended in error and its agent has no child: one run was counted,
\* nothing is in flight.
C20_Witness ==
  /\ settled.kind = "closed"
  /\ settled.closeCode = Some(Some(1))
  /\ heap[settled.obj].status = "error"
  /\ heap[settled.obj].runCount = 1
  /\ \A id \in CallIds : calls[id].pc = "none"

\* C21: cache retention.  In every step that is not the explicit
\* invalidation (/agents-check), a capability result the cache holds is
\* neither removed nor replaced by a different one, and no call starts to
\* wait for a query of a model the cache holds a result for.
C21_CacheRetention ==
  [][ ~AgentsCheck =>
        /\ \A m \in ModelNames :
             modelCheckCache[m] # Null =>
               modelCheckCache'[m] = modelCheckCache[m]
        /\ \A id \in CallIds :
             (calls[id].pc # "probe" /\ calls'[id].pc = "probe") =>
               modelCheckCache[calls'[id].modelName] = Null
    ]_vars

----------------------------------------------------------------------------
(* Text *)

\* A text is the sequence of its runs: [c |-> x, n |-> k] is the character
\* x repeated k times (k > 0), and neighbouring runs differ in c.  A word
\* that is never taken apart here ("name", "read") stands as one character.
Run(c, n) == [c |-> c, n |-> n]
Ch(c) == Run(c, 1)

\* s.length
RECURSIVE StrLen(_)
StrLen(s) == IF s = <<>> THEN 0 ELSE Head(s).n + StrLen(Tail(s))

\* a + b
Concat(a, b) ==
  IF a = <<>> THEN b
  ELSE IF b = <<>> THEN a
  ELSE IF a[Len(a)].c = b[1].c
    THEN SubSeq(a, 1, Len(a) - 1)
           \o << Run(b[1].c, a[Len(a)].n + b[1].n) >> \o Tail(b)
  ELSE a \o b

\* s.slice(0, k)
RECURSIVE SliceTo(_, _)
SliceTo(s, k) ==
  IF s = <<>> \/ k <= 0 THEN <<>>
  ELSE IF Head(s).n >= k THEN << Run(Head(s).c, k) >>
  ELSE << Head(s) >> \o SliceTo(Tail(s), k - Head(s).n)

\* The characters \s matches.
IsSpace(c) == c \in {" ", "\t", "\r"}

\* s.trim()
RECURSIVE TrimStart(_)
TrimStart(s) ==
  IF s # <<>> /\ IsSpace(Head(s).c) THEN TrimStart(Tail(s)) ELSE s

RECURSIVE TrimEnd(_)
TrimEnd(s) ==
  IF s # <<>> /\ IsSpace(s[Len(s)].c)
    THEN TrimEnd(SubSeq(s, 1, Len(s) - 1)) ELSE s

Trim(s) == TrimEnd(TrimStart(s))

\* c.toLowerCase() on the letters used in names
LowerChar(c) ==
  CASE c = "S" -> "s"
    [] c = "C" -> "c"
    [] c = "A" -> "a"
    [] OTHER   -> c

\* s.toLowerCase(): runs that become equal are joined.
RECURSIVE LowerCase(_)
LowerCase(s) ==
  IF s = <<>> THEN <<>>
  ELSE Concat(<< Run(LowerChar(Head(s).c), Head(s).n) >>, LowerCase(Tail(s)))

\* The text of single characters.
RECURSIVE Text(_)
Text(chars) ==
  IF chars = <<>> THEN <<>>
  ELSE Concat(<< Ch(Head(chars)) >>, Text(Tail(chars)))

----------------------------------------------------------------------------
(* parseAgentFile, scanAgentDirs, parseTeamsYaml and loadAgents *)

\* A file of a directory listing:
\*   dir, base : the directory it is in and its name without the extension
\*   md        : whether its name ends in ".md"
\*   readable  : whether readFileSync returns its content
\*   fm        : whether the content starts with a "---" line and holds a
\*               closing "---" line, i.e. the frontmatter pattern matches
\*   header    : the lines between the two, each a text
\*   body      : the text after the closing line
AgentFile(dir, base, md, readable, fm, header, body) ==
  [ dir |-> dir, base |-> base, md |-> md, readable |-> readable,
    fm |-> fm, header |-> header, body |-> body ]

\* resolve(dir, file)
PathOf(file) == << file.dir, file.base >>

\* line.indexOf(":"); 0 stands for -1 (no colon), positions count runs
ColonAt(line) ==
  IF \E i \in 1..Len(line) : line[i].c = ":"
    THEN CHOOSE i \in 1..Len(line) :
           line[i].c = ":" /\ \A j \in 1..(i-1) : line[j].c # ":"
    ELSE 0

\* The key and the value a header line sets: line.slice(0, idx).trim() and
\* line.slice(idx + 1).trim().  Only called when idx > 0.
KeyOf(line) == Trim(SubSeq(line, 1, ColonAt(line) - 1))
ValueOf(line) ==
  LET i == ColonAt(line)
  IN  Trim((IF line[i].n > 1 THEN << Run(":", line[i].n - 1) >> ELSE <<>>)
             \o SubSeq(line, i + 1, Len(line)))

\* frontmatter[key] || "" after the loop over the header lines: the last
\* line that sets the key decides, a line whose colon is missing or first
\* sets nothing.
RECURSIVE Field(_, _)
Field(header, key) ==
  IF header = <<>> THEN <<>>
  ELSE LET line == header[Len(header)]
       IN  IF ColonAt(line) > 1 /\ KeyOf(line) = key
             THEN ValueOf(line)
             ELSE Field(SubSeq(header, 1, Len(header) - 1), key)

Word(w) == << Ch(w) >>

\* "read,grep,find,ls"
DefaultTools ==
  << Ch("read"), Ch(","), Ch("grep"), Ch(","), Ch("find"), Ch(","), Ch("ls") >>

\* parseAgentFile(filePath): Null, or the AgentDef.
parseAgentFile(file) ==
  IF ~file.readable THEN Null
  ELSE IF ~file.fm THEN Null
  ELSE IF Field(file.header, Word("name")) = <<>> THEN Null
  ELSE Some([ name         |-> Field(file.header, Word("name")),
              description  |-> Field(file.header, Word("description")),
              tools        |-> IF Field(file.header, Word("tools")) = <<>>
                                 THEN DefaultTools
                                 ELSE Field(file.header, Word("tools")),
              model        |-> Field(file.header, Word("model")),
              thinking     |-> Field(file.header, Word("thinking")),
              systemPrompt |-> Trim(file.body),
              file         |-> PathOf(file) ])

\* The directories scanAgentDirs visits, in its order.
AgentDirs == << "agents", ".claude/agents", ".pi/agents" >>

\* A directory of the project: Null when it does not exist, otherwise
\* whether readdirSync lists it and the files it lists, in listing order.
Dir(listable, files) == [listable |-> listable, files |-> files]

\* The loop over the files of one directory, on [agents, seen].
RECURSIVE ScanFiles(_, _)
ScanFiles(acc, files) ==
  IF files = <<>> THEN acc
  ELSE LET file == Head(files)
           def  == IF file.md THEN parseAgentFile(file) ELSE Null
       IN  IF def # Null /\ LowerCase(def[1].name) \notin acc.seen
             THEN ScanFiles([ agents |-> Append(acc.agents, def[1]),
                              seen   |-> acc.seen \cup {LowerCase(def[1].name)} ],
                            Tail(files))
             ELSE ScanFiles(acc, Tail(files))

\* The loop over the directories.
RECURSIVE ScanDirs(_, _, _)
ScanDirs(acc, dirs, i) ==
  IF i > Len(AgentDirs) THEN acc
  ELSE LET d == dirs[AgentDirs[i]]
       IN  IF d = Null \/ ~d[1].listable
             THEN ScanDirs(acc, dirs, i + 1)
             ELSE ScanDirs(ScanFiles(acc, d[1].files), dirs, i + 1)

\* scanAgentDirs(cwd): the definitions, in the order they were accepted.
scanAgentDirs(dirs) == ScanDirs([agents |-> <<>>, seen |-> {}], dirs, 1).agents

\* line.match(/^(\S[^:]*):$/): the line ends in a colon, holds no colon
\* between its first character and that one, and does not start with white
\* space.
TeamMatch(line) ==
  \/ line = << Run(":", 2) >>
  \/ /\ Len(line) >= 2
     /\ ~IsSpace(line[1].c)
     /\ line[1].c = ":" => line[1].n = 1
     /\ line[Len(line)] = Ch(":")
     /\ \A i \in 2..(Len(line) - 1) : line[i].c # ":"

\* Whether the runs of the line from i on are /\s+(.+)$/: white space, then
\* at least one character, none of them a line terminator.
SpaceThenText(line, i) ==
  \E p \in i..Len(line) :
    /\ \A j \in i..p : IsSpace(line[j].c)
    /\ \A j \in (p+1)..Len(line) : line[j].c # "\r"
    /\ p < Len(line) \/ (line[p].n >= 2 /\ line[p].c # "\r")

\* line.match(/^\s+-\s+(.+)$/): 0 when the line does not match, otherwise
\* the place of the dash.
ItemMatch(line) ==
  IF \E i \in 2..(Len(line) - 1) :
       /\ \A j \in 1..(i-1) : IsSpace(line[j].c)
       /\ line[i] = Ch("-")
       /\ SpaceThenText(line, i + 1)
    THEN CHOOSE i \in 2..(Len(line) - 1) :
           /\ \A j \in 1..(i-1) : IsSpace(line[j].c)
           /\ line[i] = Ch("-")
    ELSE 0

\* teams[current] = [] on the teams so far, a sequence of [name, members]
\* in the order of the keys: a name that is there keeps its place.
ResetTeam(ts, name) ==
  IF \E i \in 1..Len(ts) : ts[i].name = name
    THEN [i \in 1..Len(ts) |->
            IF ts[i].name = name THEN [name |-> name, members |-> <<>>]
            ELSE ts[i]]
    ELSE Append(ts, [name |-> name, members |-> <<>>])

\* teams[current].push(member)
PushMember(ts, name, member) ==
  [i \in 1..Len(ts) |->
     IF ts[i].name = name
       THEN [name |-> name, members |-> Append(ts[i].members, member)]
       ELSE ts[i]]

\* The loop of parseTeamsYaml over the lines, on [teams, current].
RECURSIVE ParseTeamLines(_, _)
ParseTeamLines(acc, lines) ==
  IF lines = <<>> THEN acc.teams
  ELSE LET line == Head(lines)
       IN  IF TeamMatch(line)
             THEN LET name == Trim(SliceTo(line, StrLen(line) - 1))
                  IN  ParseTeamLines([ teams   |-> ResetTeam(acc.teams, name),
                                       current |-> Some(name) ],
                                     Tail(lines))
           ELSE IF ItemMatch(line) > 0 /\ acc.current # Null
             THEN ParseTeamLines(
                    [ acc EXCEPT !.teams =
                        PushMember(acc.teams, acc.current[1],
                                   Trim(SubSeq(line, ItemMatch(line) + 1,
                                               Len(line)))) ],
                    Tail(lines))
           ELSE ParseTeamLines(acc, Tail(lines))

parseTeamsYaml(lines) == ParseTeamLines([teams |-> <<>>, current |-> Null], lines)

\* d.name of every definition, in order
RECURSIVE NamesOf(_)
NamesOf(defs) ==
  IF defs = <<>> THEN <<>> ELSE << Head(defs).name >> \o NamesOf(Tail(defs))

\* A mutation of loadAgents: the team "all" is added whatever the manifest
\* defines.
loadAgentsAlwaysAll(project) ==
  LET defs   == scanAgentDirs(project.dirs)
      parsed == IF project.manifest = Null \/ ~project.manifest[1].readable
                  THEN <<>>
                  ELSE parseTeamsYaml(project.manifest[1].lines)
  IN  [ allAgentDefs |-> defs,
        teams        |-> Append(parsed,
                                [name |-> Word("all"), members |-> NamesOf(defs)]) ]

\* loadAgents(cwd): allAgentDefs and teams.  The manifest of the project is
\* Null when .pi/agents/teams.yaml does not exist, otherwise whether it can
\* be read and its lines.
loadAgents(project) ==
  LET defs   == scanAgentDirs(project.dirs)
      parsed == IF project.manifest = Null \/ ~project.manifest[1].readable
                  THEN <<>>
                  ELSE parseTeamsYaml(project.manifest[1].lines)
  IN  [ allAgentDefs |-> defs,
        teams        |-> IF Len(parsed) = 0
                           THEN << [name |-> Word("all"), members |-> NamesOf(defs)] >>
                           ELSE parsed ]

----------------------------------------------------------------------------
(* The validating loader (extensions/utils/agent-loader.ts), after its     *)
(* specification and the tests that import it                              *)

\* A ValidationWarning.
Finding(severity, field, message) ==
  [severity |-> severity, field |-> field, message |-> message]

\* The findings of a severity, in order.
OfSeverity(findings, severity) ==
  SelectSeq(findings, LAMBDA w : w.severity = severity)

hasError(findings) == \E i \in 1..Len(findings) : findings[i].severity = "error"

\* The longest identity accepted, and the longest persona accepted.
MaxNameLength == 64
MAX_SYSTEM_PROMPT_LENGTH == 50000

\* The characters an identity may hold: letters, digits, dot, dash and
\* underscore (those of them that occur in the texts used here).
NameChars ==
  { "a", "b", "c", "s", "x", "z", "A", "C", "S", "1", ".", "-", "_" }

\* validateName(name): one error for each rule the identity breaks.
validateName(name) ==
  (IF name = <<>>
     THEN << Finding("error", "name", "empty") >> ELSE <<>>)
  \o (IF \E i \in 1..Len(name) : name[i].c \notin NameChars
        THEN << Finding("error", "name", "invalid characters") >> ELSE <<>>)
  \o (IF name # <<>> /\ name[1].c \in {".", "-"}
        THEN << Finding("error", "name", "starts with") >> ELSE <<>>)
  \o (IF StrLen(name) > MaxNameLength
        THEN << Finding("error", "name", "exceeds") >> ELSE <<>>)

\* tools.split(","): the texts between the commas.
RECURSIVE SplitComma(_, _)
SplitComma(cur, s) ==
  IF s = <<>> THEN << cur >>
  ELSE IF Head(s).c = ","
    THEN << cur >>
           \o [i \in 1..(Head(s).n - 1) |-> <<>>]
           \o SplitComma(<<>>, Tail(s))
  ELSE SplitComma(Append(cur, Head(s)), Tail(s))

\* The tokens of a capability list: trimmed, the empty ones dropped.
RECURSIVE TrimAll(_)
TrimAll(parts) ==
  IF parts = <<>> THEN <<>>
  ELSE (IF Trim(Head(parts)) = <<>> THEN <<>> ELSE << Trim(Head(parts)) >>)
         \o TrimAll(Tail(parts))

ToolTokens(tools) == TrimAll(SplitComma(<<>>, tools))

\* The capabilities known when no whitelist is given.
KNOWN_TOOLS ==
  { Word("read"), Word("write"), Word("edit"), Word("bash"), Word("grep"),
    Word("find"), Word("ls") }

\* One warning for each token, in order.
RECURSIVE UnknownToolFindings(_, _)
UnknownToolFindings(tokens, known) ==
  IF tokens = <<>> THEN <<>>
  ELSE (IF Head(tokens) \in known THEN <<>>
        ELSE << Finding("warning", "tools", Head(tokens)) >>)
         \o UnknownToolFindings(Tail(tokens), known)

\* A mutation of validateTools: an unknown capability is an error.
validateToolsStrict(tools, known) ==
  [i \in 1..Len(UnknownToolFindings(ToolTokens(tools), known)) |->
     [UnknownToolFindings(ToolTokens(tools), known)[i]
        EXCEPT !.severity = "error"]]

\* validateTools(tools, known): one warning for each token outside the
\* whitelist, never an error.
validateTools(tools, known) == UnknownToolFindings(ToolTokens(tools), known)

\* The payloads a persona is scanned for, each a piece of text that stands
\* as one character of the persona; a Markdown inline code span such as
\* "'read'" (the quotes standing for backticks) matches nothing.
SuspiciousPatterns ==
  [ substitution |-> "$(whoami)",
    backtick     |-> "<backtick>rm -rf /<backtick>",
    nullbyte     |-> "NUL",
    pipe         |-> "| bash",
    destructive  |-> "; rm -rf /",
    redirect     |-> "> /dev/sda",
    eval         |-> "eval(code)" ]

PatternOrder ==
  << "substitution", "backtick", "nullbyte", "pipe", "destructive",
     "redirect", "eval" >>

RECURSIVE PatternFindings(_, _)
PatternFindings(prompt, i) ==
  IF i > Len(PatternOrder) THEN <<>>
  ELSE (IF \E j \in 1..Len(prompt) :
             prompt[j].c = SuspiciousPatterns[PatternOrder[i]]
          THEN << Finding("warning", "systemPrompt", PatternOrder[i]) >>
          ELSE <<>>)
         \o PatternFindings(prompt, i + 1)

\* A mutation of validateSystemPrompt: a persona of exactly the ceiling is
\* rejected too.
validateSystemPromptFromLimit(prompt) ==
  PatternFindings(prompt, 1)
    \o (IF StrLen(prompt) >= MAX_SYSTEM_PROMPT_LENGTH
          THEN << Finding("error", "systemPrompt", "exceeds") >> ELSE <<>>)

\* validateSystemPrompt(prompt): one warning for each pattern that occurs,
\* one error when the persona is longer than the ceiling.
validateSystemPrompt(prompt) ==
  PatternFindings(prompt, 1)
    \o (IF StrLen(prompt) > MAX_SYSTEM_PROMPT_LENGTH
          THEN << Finding("error", "systemPrompt", "exceeds") >> ELSE <<>>)

\* validateAgent(agent): the findings of all fields.
validateAgent(agent) ==
  validateName(agent.name)
    \o validateTools(agent.tools, KNOWN_TOOLS)
    \o validateSystemPrompt(agent.systemPrompt)

\* Whether a header line sets the key.
HasField(header, key) ==
  \E i \in 1..Len(header) : ColonAt(header[i]) > 1 /\ KeyOf(header[i]) = key

\* The definition a readable file with frontmatter declares: a missing
\* identity is the base name of the file, a missing or empty capability
\* list the read-only one.
DeclaredAgent(file) ==
  [ name         |-> IF HasField(file.header, Word("name"))
                       THEN Field(file.header, Word("name")) ELSE file.base,
    description  |-> Field(file.header, Word("description")),
    tools        |-> IF Field(file.header, Word("tools")) = <<>>
                       THEN DefaultTools ELSE Field(file.header, Word("tools")),
    model        |-> Field(file.header, Word("model")),
    thinking     |-> Field(file.header, Word("thinking")),
    systemPrompt |-> Trim(file.body),
    file         |-> PathOf(file) ]

\* A mutation of loadAgentFile: the definition is returned whatever the
\* findings are.
loadAgentFileLenient(file) ==
  IF ~file.readable
    THEN [ agent |-> Null,
           warnings |-> << Finding("error", "file", "could not read") >> ]
  ELSE IF ~file.fm
    THEN [ agent |-> Null,
           warnings |-> << Finding("error", "file", "missing frontmatter") >> ]
  ELSE [ agent    |-> Some(DeclaredAgent(file)),
         warnings |-> validateAgent(DeclaredAgent(file)) ]

\* loadAgentFile(filePath): the definition or Null, and the findings.
loadAgentFile(file) ==
  IF ~file.readable
    THEN [ agent |-> Null,
           warnings |-> << Finding("error", "file", "could not read") >> ]
  ELSE IF ~file.fm
    THEN [ agent |-> Null,
           warnings |-> << Finding("error", "file", "missing frontmatter") >> ]
  ELSE LET findings == validateAgent(DeclaredAgent(file))
       IN  [ agent    |-> IF hasError(findings) THEN Null
                          ELSE Some(DeclaredAgent(file)),
             warnings |-> findings ]

\* A CollisionWarning.
Collision(name, duplicatePath, originalPath) ==
  [ name |-> name, duplicatePath |-> duplicatePath,
    originalPath |-> originalPath ]

\* The findings of a file, as onWarning receives them.
Reported(file, findings) ==
  [i \in 1..Len(findings) |-> [file |-> PathOf(file), warning |-> findings[i]]]

\* The definition among agents whose identity is name up to case.
Retained(agents, name) ==
  CHOOSE a \in { agents[i] : i \in 1..Len(agents) } :
    LowerCase(a.name) = LowerCase(name)

\* A mutation of ScanTree: the scan ends at the first file that gives no
\* definition.
RECURSIVE ScanTreeStopAtError(_, _)
ScanTreeStopAtError(acc, files) ==
  IF files = <<>> THEN acc
  ELSE LET file   == Head(files)
           loaded == loadAgentFile(file)
           said   == [acc EXCEPT !.reported =
                        @ \o Reported(file, loaded.warnings)]
       IN  IF ~file.md THEN ScanTreeStopAtError(acc, Tail(files))
           ELSE IF loaded.agent = Null THEN said
           ELSE IF \E i \in 1..Len(acc.agents) :
                     LowerCase(acc.agents[i].name)
                       = LowerCase(loaded.agent[1].name)
             THEN ScanTreeStopAtError(
                    [said EXCEPT !.collisions =
                       Append(@, Collision(
                                   loaded.agent[1].name, PathOf(file),
                                   Retained(acc.agents,
                                            loaded.agent[1].name).file))],
                    Tail(files))
           ELSE ScanTreeStopAtError(
                  [said EXCEPT !.agents = Append(@, loaded.agent[1])],
                  Tail(files))

\* The walk of scanAgentDirectory over the files with the definition
\* extension, at any depth, in visiting order: every file is loaded and its
\* findings reported; a definition whose identity, up to case, is already
\* held gives a collision and is left out.
RECURSIVE ScanTree(_, _)
ScanTree(acc, files) ==
  IF files = <<>> THEN acc
  ELSE LET file   == Head(files)
           loaded == loadAgentFile(file)
           said   == [acc EXCEPT !.reported =
                        @ \o Reported(file, loaded.warnings)]
       IN  IF ~file.md THEN ScanTree(acc, Tail(files))
           ELSE IF loaded.agent = Null THEN ScanTree(said, Tail(files))
           ELSE IF \E i \in 1..Len(acc.agents) :
                     LowerCase(acc.agents[i].name)
                       = LowerCase(loaded.agent[1].name)
             THEN ScanTree(
                    [said EXCEPT !.collisions =
                       Append(@, Collision(
                                   loaded.agent[1].name, PathOf(file),
                                   Retained(acc.agents,
                                            loaded.agent[1].name).file))],
                    Tail(files))
           ELSE ScanTree([said EXCEPT !.agents = Append(@, loaded.agent[1])],
                         Tail(files))

\* scanAgentDirectory(dir, onWarning): the definitions in the order they
\* were accepted, the collisions, and the findings handed to onWarning.  A
\* root that does not exist (Null) gives the empty result.
scanAgentDirectory(root) ==
  IF root = Null
    THEN [ agents |-> <<>>, collisions |-> <<>>, reported |-> <<>> ]
    ELSE ScanTree([ agents |-> <<>>, collisions |-> <<>>, reported |-> <<>> ],
                  root[1])

----------------------------------------------------------------------------
(* The inputs the loading functions are followed on *)

\* The longest directory listing, and the longest manifest, in lines.
MaxFiles == 3
MaxLines == 3

\* The sequences over S of at most n elements.
SeqsUpTo(S, n) == UNION { [1..k -> S] : k \in 0..n }

\* The directory listings over S of at most n files: no file twice.
ListingsUpTo(S, n) ==
  { s \in SeqsUpTo(S, n) : \A i, j \in 1..Len(s) : s[i] = s[j] => i = j }

\* "key: value"
HeaderLine(key, value) == Concat(<< Ch(key), Ch(":"), Ch(" ") >>, value)

\* Names that differ only in case, and one more.
NameScout == Text(<< "S", "c" >>)
NameScoutLower == Text(<< "s", "c" >>)
NameScoutUpper == Text(<< "S", "C" >>)
NameBuilder == Text(<< "b" >>)

\* A persona without anything suspicious.
PlainBody == Text(<< "Y", "o", "u" >>)

\* A well-formed definition file that declares the name.
PlainFile(base, name) ==
  AgentFile("", base, TRUE, TRUE, TRUE, << HeaderLine("name", name) >>,
            PlainBody)

\* The files of the listings: three that claim one name up to case, one
\* with a name of its own, one that cannot be read, one without
\* frontmatter, and one that is not a definition file.
ListedFiles ==
  { PlainFile(Word("f1"), NameScout),
    PlainFile(Word("f2"), NameScoutLower),
    PlainFile(Word("f3"), NameScoutUpper),
    PlainFile(Word("f4"), NameBuilder),
    AgentFile("", Word("f5"), TRUE, FALSE, FALSE, <<>>, <<>>),
    AgentFile("", Word("f6"), TRUE, TRUE, FALSE, <<>>, PlainBody),
    AgentFile("", Word("f7"), FALSE, TRUE, TRUE,
              << HeaderLine("name", NameBuilder) >>, PlainBody) }

\* The files put into directory dir.
InDir(files, dir) == [i \in 1..Len(files) |-> [files[i] EXCEPT !.dir = dir]]

\* The project whose first cut files are listed in agents and whose other
\* files are listed in .pi/agents; .claude/agents does not exist, and a
\* directory without a file of the listing either does not exist either
\* (bare) or exists and cannot be listed.
Tree(files, cut, bare) ==
  LET first == SubSeq(files, 1, cut)
      rest  == SubSeq(files, cut + 1, Len(files))
      dir(fs, name) == IF fs = <<>>
                         THEN (IF bare THEN Null ELSE Some(Dir(FALSE, <<>>)))
                         ELSE Some(Dir(TRUE, InDir(fs, name)))
  IN  [d \in {"agents", ".claude/agents", ".pi/agents"} |->
         CASE d = "agents"     -> dir(first, "agents")
           [] d = ".pi/agents" -> dir(rest, ".pi/agents")
           [] OTHER            -> Null]

Trees ==
  UNION { { Tree(files, cut, bare) : cut \in 0..Len(files), bare \in BOOLEAN } :
            files \in ListingsUpTo(ListedFiles, MaxFiles) }

\* The lines of the manifests: two team headers, two members, a team
\* header ended by a carriage return, and a team written on one line.
ManifestLines ==
  { << Ch("full"), Ch(":") >>,
    << Ch("solo"), Ch(":") >>,
    << Run(" ", 2), Ch("-"), Ch(" "), Ch("scout") >>,
    << Ch("full"), Ch(":"), Ch("\r") >>,
    << Ch("full"), Ch(":"), Ch(" "), Ch("[scout]") >> }

\* .pi/agents/teams.yaml: missing, unreadable, or its lines.
Manifests ==
  { Null, Some([readable |-> FALSE, lines |-> <<>>]) }
    \cup { Some([readable |-> TRUE, lines |-> ls]) :
             ls \in SeqsUpTo(ManifestLines, MaxLines) }

\* The projects loadAgents is followed on.
Projects ==
  { [dirs |-> t, manifest |-> m] :
      t \in { Tree(<<>>, 0, TRUE),
              Tree(<< PlainFile(Word("f1"), NameScout),
                      PlainFile(Word("f4"), NameBuilder) >>, 1, TRUE),
              Tree(<< PlainFile(Word("f1"), NameScout),
                      PlainFile(Word("f2"), NameScoutLower) >>, 2, FALSE) },
      m \in Manifests }

FnArg(fn, arg) == [fn |-> fn, arg |-> Some(arg), result |-> Null]

\* The function followed returns: fnCall holds its result.
Returns(fn, value) ==
  /\ fnCall.fn = fn
  /\ fnCall.result = Null
  /\ fnCall' = [fnCall EXCEPT !.result = Some(value)]
  /\ UNCHANGED << dispatcherVars, git >>

LoadAgents == Returns("loadAgents", loadAgents(fnCall.arg[1]))

ScanAgentDirs == Returns("scanAgentDirs", scanAgentDirs(fnCall.arg[1]))

----------------------------------------------------------------------------
(* The dispatch_agent tool: execute *)

\* The length from which on the transcript is cut for display.
TruncateAt == 8000

\* "\n\n... [truncated]"
TruncationMarker == << Run("\n", 2), Ch("... [truncated]") >>

\* A mutation of Truncated: a transcript of exactly the length is cut too.
TruncatedFromLimit(output) ==
  IF StrLen(output) >= TruncateAt
    THEN Concat(SliceTo(output, TruncateAt), TruncationMarker)
    ELSE output

\* result.output.length > 8000
\*   ? result.output.slice(0, 8000) + "\n\n... [truncated]" : result.output
Truncated(output) ==
  IF StrLen(output) > TruncateAt
    THEN Concat(SliceTo(output, TruncateAt), TruncationMarker)
    ELSE output

\* Math.round(elapsed / 1000) of a time in milliseconds that is not negative
RoundSeconds(elapsed) == (elapsed + 500) \div 1000

\* `[${agent}] ${status} in ${Math.round(result.elapsed / 1000)}s`
Summary(agent, status, elapsed) ==
  << Ch("["), Ch(agent), Ch("]"), Ch(" "), Ch(status), Ch(" in "),
     Ch(ToString(RoundSeconds(elapsed))), Ch("s") >>

\* execute(_, {agent, task}): what the tool returns when dispatchAgent
\* resolved with result, and when it rejected (result is Null).
execute(agent, task, result) ==
  IF result = Null
    THEN [ text    |-> << Ch("Error dispatching to "), Ch(agent), Ch(": "),
                          Ch("err") >>,
           details |-> [ agent |-> agent, task |-> task, status |-> "error",
                         elapsed |-> 0, exitCode |-> 1, fullOutput |-> <<>> ] ]
    ELSE LET status == IF result[1].exitCode = 0 THEN "done" ELSE "error"
         IN  [ text    |-> Concat(Concat(Summary(agent, status, result[1].elapsed),
                                         << Run("\n", 2) >>),
                                  Truncated(result[1].output)),
               details |-> [ agent |-> agent, task |-> task, status |-> status,
                             elapsed |-> result[1].elapsed,
                             exitCode |-> result[1].exitCode,
                             fullOutput |-> result[1].output ] ]

\* How far the transcripts followed go beyond the length, and fall short
\* of it.
MaxOver == 2

\* A transcript of n >= 3 characters whose first and last character occur
\* nowhere else in it.
TranscriptOfLen(n) == << Ch("a"), Run("x", n - 2), Ch("z") >>

\* The transcripts: the empty one, a short one, one that starts with an
\* empty line, and those of a length around the limit.
Transcripts ==
  { <<>>, Text(<< "o", "k" >>), << Run("\n", 2), Ch("k") >> }
    \cup { TranscriptOfLen(n) :
             n \in (TruncateAt - MaxOver)..(TruncateAt + MaxOver) }

\* What dispatchAgent gave execute: a result, or Null for a rejection.
DispatchResults ==
  { Null }
    \cup { Some([output |-> o, exitCode |-> c, elapsed |-> e]) :
             o \in Transcripts, c \in {0, 1}, e \in {0, 1499, 1500} }

ExecuteArgs ==
  { [agent |-> a, task |-> "t", result |-> r] :
      a \in {"scout", "Builder"}, r \in DispatchResults }

Execute ==
  Returns("execute",
          execute(fnCall.arg[1].agent, fnCall.arg[1].task, fnCall.arg[1].result))

----------------------------------------------------------------------------
(* The definition files parseAgentFile and loadAgentFile are followed on *)

\* Identities inside the grammar: short ones, and the longest ones.
GoodNames ==
  { Text(<< "a" >>), Text(<< "a", "-", "b" >>),
    Text(<< "a", ".", "b", "_", "1" >>) }
    \cup { << Run("x", n) >> : n \in (MaxNameLength - MaxOver)..MaxNameLength }

\* Identities outside the grammar: the empty one, ones with a shell
\* metacharacter (";", "$(", the backtick, "|", "&"), a space or a slash,
\* ones that start with "." or "-", and ones that are too long.
BadNames ==
  { <<>>,
    Text(<< "a", ";", "b" >>), Text(<< "a", "$", "(", "b", ")" >>),
    Text(<< "a", "<backtick>", "b" >>), Text(<< "a", "|", "b" >>),
    Text(<< "a", "&", "b" >>), Text(<< "a", " ", "b" >>),
    Text(<< "a", "/", "b" >>), Text(<< ".", "a" >>), Text(<< "-", "a" >>) }
    \cup { << Run("x", n) >> :
             n \in (MaxNameLength + 1)..(MaxNameLength + MaxOver) }

\* The header lines that set the identity: none, or one.
NameLines ==
  { <<>> } \cup { << HeaderLine("name", n) >> : n \in GoodNames \cup BadNames }

\* Capability lists: known ones, ones with unknown tokens, blanks and empty
\* tokens.
CapabilityLists ==
  { <<>>,
    << Ch("read"), Ch(","), Ch("bash") >>,
    << Ch("read"), Ch(","), Ch(" "), Ch("evil_tool") >>,
    << Ch("evil_tool"), Ch(","), Ch("read"), Ch(","), Ch("rm") >>,
    << Ch("read"), Run(",", 2), Ch(" "), Ch(","), Ch("ls") >> }

\* The header lines that set the capabilities: none, or one.
CapabilityLines ==
  { <<>> } \cup { << HeaderLine("tools", t) >> : t \in CapabilityLists }

\* Personas: a plain one, ones with a suspicious payload, one with an
\* inline code span, and ones around the ceiling.
Bodies ==
  { PlainBody,
    << Ch("Run"), Ch(" "), Ch(SuspiciousPatterns.substitution) >>,
    << Ch("Run"), Ch(" "), Ch(SuspiciousPatterns.pipe), Ch(" "),
       Ch(SuspiciousPatterns.eval) >>,
    << Ch("Use"), Ch(" "), Ch("'read'") >> }
    \cup { << Run("x", n) >> :
             n \in (MAX_SYSTEM_PROMPT_LENGTH - MaxOver)
                     ..(MAX_SYSTEM_PROMPT_LENGTH + MaxOver) }

\* The base name of the definition files.
FallbackName == Text(<< "a", "-", "c" >>)

\* The definition files: every header over every persona, a file that
\* cannot be read and a file without frontmatter.
AgentFiles ==
  { AgentFile("agents", FallbackName, TRUE, TRUE, TRUE, n \o t, b) :
      n \in NameLines, t \in CapabilityLines, b \in Bodies }
    \cup { AgentFile("agents", FallbackName, TRUE, FALSE, FALSE, <<>>, <<>>),
           AgentFile("agents", FallbackName, TRUE, TRUE, FALSE, <<>>,
                     PlainBody) }

ParseAgentFile == Returns("parseAgentFile", parseAgentFile(fnCall.arg[1]))

LoadAgentFile == Returns("loadAgentFile", loadAgentFile(fnCall.arg[1]))

----------------------------------------------------------------------------
(* The directory trees scanAgentDirectory is followed on *)

\* The files of the trees, each in its directory: three that claim one
\* identity up to case, at three depths; one with an identity of its own; one
\* that cannot be read; one without frontmatter; one that is not a
\* definition file; one whose identity is outside the grammar; and one that
\* loads with warnings.
TreeFiles ==
  { AgentFile("", Word("f1"), TRUE, TRUE, TRUE,
              << HeaderLine("name", NameScout) >>, PlainBody),
    AgentFile("team-a", Word("f2"), TRUE, TRUE, TRUE,
              << HeaderLine("name", NameScoutLower) >>, PlainBody),
    AgentFile("team-b/deep", Word("f3"), TRUE, TRUE, TRUE,
              << HeaderLine("name", NameScoutUpper) >>, PlainBody),
    AgentFile("", Word("f4"), TRUE, TRUE, TRUE,
              << HeaderLine("name", NameBuilder) >>, PlainBody),
    AgentFile("sub", Word("f5"), TRUE, FALSE, FALSE, <<>>, <<>>),
    AgentFile("docs", Word("f6"), TRUE, TRUE, FALSE, <<>>, PlainBody),
    AgentFile("", Word("f7"), FALSE, TRUE, TRUE,
              << HeaderLine("name", NameBuilder) >>, PlainBody),
    AgentFile("sub", Word("f8"), TRUE, TRUE, TRUE,
              << HeaderLine("name", Text(<< "a", ";", "b" >>)) >>, PlainBody),
    AgentFile("sub", Word("f9"), TRUE, TRUE, TRUE,
              << HeaderLine("name", Text(<< "a" >>)),
                 HeaderLine("tools", << Ch("read"), Ch(","), Ch("evil_tool") >>) >>,
              << Ch("Run"), Ch(" "), Ch(SuspiciousPatterns.substitution) >>) }

\* The roots: one that does not exist, and the trees of at most MaxFiles of
\* the files, no file twice, in the order the walk visits them.
Roots ==
  { Null }
    \cup { Some(fs) : fs \in ListingsUpTo(TreeFiles, MaxFiles) }

ScanAgentDirectory ==
  Returns("scanAgentDirectory", scanAgentDirectory(fnCall.arg[1]))

----------------------------------------------------------------------------
(* The capability lists and personas the validators are followed on *)

\* The longest capability list, in tokens.
MaxTokens == 3

\* The tokens of the lists, as written between the commas: two known
\* capabilities, one of them with blanks around it, two unknown ones, one
\* of them after a blank, and the empty token.
RawTokens ==
  { Word("read"), << Ch(" "), Ch("ls"), Ch(" ") >>,
    << Ch(" "), Ch("evil_tool") >>, Word("rm"), <<>> }

\* tokens.join(",")
RECURSIVE JoinComma(_)
JoinComma(tokens) ==
  IF tokens = <<>> THEN <<>>
  ELSE IF Len(tokens) = 1 THEN Head(tokens)
  ELSE Concat(Concat(Head(tokens), << Ch(",") >>), JoinComma(Tail(tokens)))

\* The whitelists: the default one, a custom one, one that knows a
\* capability the default does not, and the empty one.
Whitelists ==
  { KNOWN_TOOLS, { Word("custom_tool") },
    { Word("read"), Word("evil_tool") }, {} }

ValidateToolsArgs ==
  { [ tokens |-> ts, tools |-> JoinComma(ts), known |-> k ] :
      ts \in SeqsUpTo(RawTokens, MaxTokens), k \in Whitelists }

ValidateTools ==
  Returns("validateTools",
          validateTools(fnCall.arg[1].tools, fnCall.arg[1].known))

ValidateSystemPrompt ==
  Returns("validateSystemPrompt", validateSystemPrompt(fnCall.arg[1]))

----------------------------------------------------------------------------
(* The child output the decoder is followed on *)

\* The longest stream, in lines, and the most reads a stream arrives in.
MaxEvents == 2
MaxReads == 3

\* The lines of the streams: a tool start, a text delta, a usage report
\* above the context window, and the final batched report.
StreamLines ==
  { <<"TOOL_head", "TOOL_tail", "NL">>, <<"TEXT_a", "NL">>,
    <<"USAGE_over", "NL">>, <<"END", "NL">> }

\* What a stream ends with after its last newline: nothing, or one event of
\* each kind.
Fragments ==
  { <<>>, <<"TEXT_a">>, <<"TOOL_head", "TOOL_tail">>, <<"USAGE_over">> }

RECURSIVE Flatten(_)
Flatten(seqs) == IF seqs = <<>> THEN <<>> ELSE Head(seqs) \o Flatten(Tail(seqs))

Streams ==
  { Flatten(ls) \o f : ls \in SeqsUpTo(StreamLines, MaxEvents), f \in Fragments }

\* The ways a stream arrives in at most r reads, none of them empty.
RECURSIVE Splits(_, _)
Splits(s, r) ==
  IF s = <<>> THEN { <<>> }
  ELSE IF r <= 1 THEN { << s >> }
  ELSE { << s >> }
         \cup UNION { { << SubSeq(s, 1, i) >> \o rest :
                          rest \in Splits(SubSeq(s, i + 1, Len(s)), r - 1) } :
                      i \in 1..(Len(s) - 1) }

Deliveries == UNION { Splits(s, MaxReads) : s \in Streams }

\* The state, the chunks of text and the buffer when the child starts.
AtSpawn ==
  [ st     |-> RunReset(FreshState(CHOOSE d \in allAgentDefs : TRUE, {}),
                        TaskText(1), 1),
    text   |-> EmptyStr,
    buffer |-> <<>> ]

\* The "data" handler over the reads, in order.
RECURSIVE ReadAll(_, _, _)
ReadAll(acc, reads, ctxWin) ==
  IF reads = <<>> THEN acc
  ELSE ReadAll(ReadChunk(acc, Head(reads), ctxWin), Tail(reads), ctxWin)

\* What the run ends with once "close" has looked at the buffer: the tool
\* count, the transcript and the context-window percentage.
AtClose(acc) ==
  [ toolCount  |-> acc.st.toolCount,
    transcript |-> TextAtClose([buffer |-> acc.buffer,
                                textChunks |-> acc.text]),
    contextPct |-> acc.st.contextPct ]

\* The child writes the reads and ends.
ChildOutput ==
  Returns("childOutput",
          AtClose(ReadAll(AtSpawn, fnCall.arg[1], contextWindow)))

----------------------------------------------------------------------------
(* The session artifacts of a roster *)

\* key.replace(/\s+/g, "-"): every run of white space becomes one "-".
RECURSIVE DashWhitespace(_)
DashWhitespace(s) ==
  IF s = <<>> THEN <<>>
  ELSE IF IsSpace(Head(s).c)
    THEN Concat(<< Ch("-") >>, DashWhitespace(TrimStart(Tail(s))))
    ELSE Concat(<< Head(s) >>, DashWhitespace(Tail(s)))

\* The roster key and the session file activateTeam computes for a
\* definition: the file is named by the key with its white space replaced.
RosterEntry(def) ==
  [ key         |-> LowerCase(def.name),
    sessionFile |-> Concat(DashWhitespace(LowerCase(def.name)), Word(".json")) ]

\* The loop of activateTeam over the members of a team of the loaded
\* project: a member that resolves to no definition is skipped, the others
\* are entered under their key.
RosterEntries(loaded, team) ==
  { RosterEntry(loaded.allAgentDefs[i]) :
      i \in { j \in 1..Len(loaded.allAgentDefs) :
                \E m \in 1..Len(team.members) :
                  LowerCase(team.members[m])
                    = LowerCase(loaded.allAgentDefs[j].name) } }

\* Names that differ in their white space only, or in "-" for white space.
NameSpaced == Text(<< "A", " ", "b" >>)
NameDashed == Text(<< "a", "-", "b" >>)
NameWide   == << Ch("a"), Run(" ", 2), Ch("b") >>

SpacedFiles ==
  { PlainFile(Word("f1"), NameSpaced),
    PlainFile(Word("f2"), NameDashed),
    PlainFile(Word("f3"), NameWide),
    PlainFile(Word("f4"), NameBuilder) }

\* The projects activation is followed on: no manifest, so that the team
\* "all" holds every definition loaded.
SpacedProjects ==
  { [dirs |-> Tree(files, Len(files), TRUE), manifest |-> Null] :
      files \in ListingsUpTo(SpacedFiles, MaxFiles) }

\* loadAgents, then activateTeam on the first team, at session start.
ActivateFirstTeam ==
  Returns("activateTeam",
          LET loaded == loadAgents(fnCall.arg[1])
          IN  RosterEntries(loaded, loaded.teams[1]))

----------------------------------------------------------------------------
(* The loading and reporting functions, each followed by itself *)

FnInputs ==
  { FnArg("loadAgents", p) : p \in Projects }
    \cup { FnArg("scanAgentDirs", t) : t \in Trees }
    \cup { FnArg("execute", x) : x \in ExecuteArgs }
    \cup { FnArg("parseAgentFile", f) : f \in AgentFiles }
    \cup { FnArg("loadAgentFile", f) : f \in AgentFiles }
    \cup { FnArg("scanAgentDirectory", r) : r \in Roots }
    \cup { FnArg("validateTools", x) : x \in ValidateToolsArgs }
    \cup { FnArg("validateSystemPrompt", b) : b \in Bodies }
    \cup { FnArg("childOutput", d) : d \in Deliveries }
    \cup { FnArg("activateTeam", p) : p \in SpacedProjects }

FnInit == InitTeam("full") /\ fnCall \in FnInputs

FnNext ==
  \/ LoadAgents
  \/ ScanAgentDirs
  \/ Execute
  \/ ParseAgentFile
  \/ LoadAgentFile
  \/ ScanAgentDirectory
  \/ ValidateTools
  \/ ValidateSystemPrompt
  \/ ChildOutput
  \/ ActivateFirstTeam

FnSpec == FnInit /\ [][FnNext]_vars

\* The call of fn has returned.
Returned(fn) == fnCall.fn = fn /\ fnCall.result # Null

\* The names the team headers of a manifest give.
TeamsDefined(manifest) ==
  IF manifest = Null \/ ~manifest[1].readable THEN {}
  ELSE { Trim(SliceTo(manifest[1].lines[i], StrLen(manifest[1].lines[i]) - 1)) :
           i \in { j \in 1..Len(manifest[1].lines) :
                     TeamMatch(manifest[1].lines[j]) } }

\* C22: default team.  After loadAgents: when the manifest is missing or
\* defines no team, the teams are exactly one team whose members are the
\* names of all loaded definitions, in their order; when the manifest
\* defines a team, the teams are those the manifest defines and no other.
C22_DefaultTeam ==
  Returned("loadAgents") =>
    LET project == fnCall.arg[1]
        loaded  == fnCall.result[1]
    IN  /\ loaded.allAgentDefs = scanAgentDirs(project.dirs)
        /\ TeamsDefined(project.manifest) = {} =>
             /\ Len(loaded.teams) = 1
             /\ loaded.teams[1].members = NamesOf(loaded.allAgentDefs)
        /\ TeamsDefined(project.manifest) # {} =>
             /\ { loaded.teams[i].name : i \in 1..Len(loaded.teams) }
                  = TeamsDefined(project.manifest)
             /\ \A i, j \in 1..Len(loaded.teams) :
                  loaded.teams[i].name = loaded.teams[j].name => i = j

\* A project of two definitions whose manifest holds lines and no team
\* header was loaded: the one team holds both names.
C22_Witness ==
  /\ Returned("loadAgents")
  /\ fnCall.arg[1].manifest # Null
  /\ fnCall.arg[1].manifest[1].readable
  /\ Len(fnCall.arg[1].manifest[1].lines) = 2
  /\ Len(fnCall.result[1].teams) = 1
  /\ fnCall.result[1].teams[1].members = << NameScout, NameBuilder >>

\* C23 as stated: the text returned for display is the transcript when its
\* length is at most 8,000 and otherwise its first 8,000 characters followed
\* by the truncation marker; the full result carries the whole transcript.
C23_Truncation ==
  (Returned("execute") /\ fnCall.arg[1].result # Null) =>
    LET output == fnCall.arg[1].result[1].output
        shown  == fnCall.result[1].text
    IN  /\ StrLen(output) <= TruncateAt => shown = output
        /\ StrLen(output) > TruncateAt =>
             shown = Concat(SliceTo(output, TruncateAt), TruncationMarker)
        /\ fnCall.result[1].details.fullOutput = output

\* The text from its k-th character on.
RECURSIVE SliceFrom(_, _)
SliceFrom(s, k) ==
  IF s = <<>> \/ k <= 0 THEN s
  ELSE IF Head(s).n > k THEN << Run(Head(s).c, Head(s).n - k) >> \o Tail(s)
  ELSE SliceFrom(Tail(s), k - Head(s).n)

\* C23 as amended: the text returned for display is the summary line and
\* an empty line, followed by the transcript when its length is at most
\* 8,000 and otherwise by its first 8,000 characters and the truncation
\* marker; the full result carries the whole transcript.
C23_TruncationAmended ==
  (Returned("execute") /\ fnCall.arg[1].result # Null) =>
    LET given  == fnCall.arg[1].result[1]
        output == given.output
        shown  == fnCall.result[1].text
        head   == Concat(Summary(fnCall.arg[1].agent,
                                 IF given.exitCode = 0 THEN "done" ELSE "error",
                                 given.elapsed),
                         << Run("\n", 2) >>)
        rest   == SliceFrom(shown, StrLen(head))
    IN  /\ SliceTo(shown, StrLen(head)) = head
        /\ StrLen(output) <= TruncateAt => rest = output
        /\ StrLen(output) > TruncateAt =>
             /\ SliceTo(rest, TruncateAt) = SliceTo(output, TruncateAt)
             /\ SliceFrom(rest, TruncateAt) = TruncationMarker
        /\ fnCall.result[1].details.fullOutput = output

\* A transcript of 8,001 characters was returned: the text shown is the
\* summary, the empty line, 8,000 characters and the marker, and the full
\* result holds all 8,001.
C23_Witness ==
  /\ Returned("execute")
  /\ fnCall.arg[1].result # Null
  /\ StrLen(fnCall.arg[1].result[1].output) = TruncateAt + 1
  /\ StrLen(fnCall.result[1].text)
       = StrLen(Summary("a", "done", 0)) + 2 + TruncateAt
           + StrLen(TruncationMarker)
  /\ StrLen(fnCall.result[1].details.fullOutput) = TruncateAt + 1


\* The identity the header of a definition file declares, Null when no line
\* sets it.
Declared(file) ==
  IF file.readable /\ file.fm /\ HasField(file.header, Word("name"))
    THEN Some(Field(file.header, Word("name")))
    ELSE Null

\* C24: identity validation.  An identity that is empty, holds a character
\* outside letters, digits, dot, dash and underscore, starts with "." or
\* "-", or is longer than 64 characters yields at least one error finding,
\* and loading the file that declares it returns no definition, with
\* loadAgentFile and with parseAgentFile; an identity inside the grammar
\* yields no finding.
C24_IdentityValidation ==
  /\ Returned("loadAgentFile") /\ Declared(fnCall.arg[1]) # Null =>
       LET name == Declared(fnCall.arg[1])[1]
       IN  /\ name \in BadNames =>
                /\ hasError(validateName(name))
                /\ fnCall.result[1].agent = Null
           /\ name \in GoodNames => validateName(name) = <<>>
  /\ Returned("parseAgentFile") /\ Declared(fnCall.arg[1]) # Null =>
       (Declared(fnCall.arg[1])[1] \in BadNames => fnCall.result[1] = Null)

\* C25: load outcome.  loadAgentFile returns no definition exactly when a
\* finding has error severity, which an unreadable file, a file without
\* frontmatter, an identity outside the grammar and a persona over the
\* ceiling each give; otherwise it returns the definition the file declares
\* together with findings that are all warnings, one for each unknown
\* capability and each suspicious pattern.
C25_LoadOutcome ==
  Returned("loadAgentFile") =>
    LET file   == fnCall.arg[1]
        loaded == fnCall.result[1]
    IN  /\ loaded.agent = Null <=> hasError(loaded.warnings)
        /\ (~file.readable \/ ~file.fm) => hasError(loaded.warnings)
        /\ (file.readable /\ file.fm) =>
             /\ (Declared(file) # Null /\ Declared(file)[1] \in BadNames)
                  => hasError(loaded.warnings)
             /\ StrLen(Trim(file.body)) > MAX_SYSTEM_PROMPT_LENGTH
                  => hasError(loaded.warnings)
             /\ ( /\ Declared(file) # Null => Declared(file)[1] \in GoodNames
                  /\ StrLen(Trim(file.body)) <= MAX_SYSTEM_PROMPT_LENGTH )
                  => /\ loaded.agent = Some(DeclaredAgent(file))
                     /\ loaded.warnings
                          = validateTools(DeclaredAgent(file).tools, KNOWN_TOOLS)
                              \o PatternFindings(Trim(file.body), 1)
                     /\ OfSeverity(loaded.warnings, "warning") = loaded.warnings

\* A file with an identity inside the grammar, an unknown capability and a
\* suspicious persona was loaded: the definition is returned with two
\* warnings.
C25_Witness ==
  /\ Returned("loadAgentFile")
  /\ Declared(fnCall.arg[1]) = Some(Text(<< "a", "-", "b" >>))
  /\ fnCall.result[1].agent # Null
  /\ fnCall.result[1].agent[1].name = Text(<< "a", "-", "b" >>)
  /\ Len(fnCall.result[1].warnings) = 2
  /\ fnCall.result[1].warnings[1].field = "tools"
  /\ fnCall.result[1].warnings[2].field = "systemPrompt"


\* The files scanAgentDirs visits, in its order.
RECURSIVE VisitedFrom(_, _)
VisitedFrom(dirs, i) ==
  IF i > Len(AgentDirs) THEN <<>>
  ELSE (IF dirs[AgentDirs[i]] = Null \/ ~dirs[AgentDirs[i]][1].listable
          THEN <<>>
          ELSE dirs[AgentDirs[i]][1].files)
         \o VisitedFrom(dirs, i + 1)

\* The definition files among the files.
DefinitionFiles(files) == SelectSeq(files, LAMBDA f : f.md)

\* What deduplication asks of a scan that visited the files in this order,
\* loaded each with Load, and gave these definitions and collision records:
\* for every identity, up to case, the definition of the first file that
\* claims it is the one retained, and every later file that claims it has
\* exactly one collision record, which names the first file as original and
\* the later file as duplicate, and has no definition in the result.
Deduplicated(visited, Load(_), agents, collisions) ==
  LET claims(i) == Load(visited[i]) # Null
      key(i)    == LowerCase(Load(visited[i])[1].name)
      first(i)  == claims(i)
                     /\ \A j \in 1..(i - 1) : claims(j) => key(j) # key(i)
      later(i)  == claims(i) /\ ~first(i)
      origin(i) == CHOOSE j \in 1..i : first(j) /\ key(j) = key(i)
  IN  /\ \A i \in 1..Len(visited) :
           first(i) =>
             /\ Cardinality({ a \in 1..Len(agents) :
                                LowerCase(agents[a].name) = key(i) }) = 1
             /\ \E a \in 1..Len(agents) : agents[a] = Load(visited[i])[1]
      /\ Len(agents) = Cardinality({ i \in 1..Len(visited) : first(i) })
      /\ \A i \in 1..Len(visited) :
           later(i) =>
             /\ Cardinality({ c \in 1..Len(collisions) :
                                collisions[c].duplicatePath
                                  = PathOf(visited[i]) }) = 1
             /\ \A c \in 1..Len(collisions) :
                  collisions[c].duplicatePath = PathOf(visited[i]) =>
                    collisions[c].originalPath = PathOf(visited[origin(i)])
             /\ \A a \in 1..Len(agents) : agents[a].file # PathOf(visited[i])
      /\ Len(collisions) = Cardinality({ i \in 1..Len(visited) : later(i) })

\* C26: directory scan deduplication.  In every scan, by scanAgentDirectory
\* and by scanAgentDirs (which returns the definitions and no collision
\* record), one definition is retained per identity up to case, the one of
\* the first file visited, and every later file that claims the identity
\* gives exactly one collision record naming the retained file as original
\* and itself as duplicate, and is left out of the result.
C26_ScanDedup ==
  /\ Returned("scanAgentDirectory") /\ fnCall.arg[1] # Null =>
       Deduplicated(DefinitionFiles(fnCall.arg[1][1]),
                    LAMBDA f : loadAgentFile(f).agent,
                    fnCall.result[1].agents, fnCall.result[1].collisions)
  /\ Returned("scanAgentDirs") =>
       Deduplicated(DefinitionFiles(VisitedFrom(fnCall.arg[1], 1)),
                    parseAgentFile, fnCall.result[1], <<>>)


\* The positions of the tokens of a list that, trimmed, are a capability
\* outside the whitelist.
OutsideWhitelist(tokens, known) ==
  { i \in 1..Len(tokens) :
      Trim(tokens[i]) # <<>> /\ Trim(tokens[i]) \notin known }

\* C27: capability-list validation.  For every comma-delimited list and
\* every whitelist, validateTools yields one finding for each token that,
\* trimmed, is outside the whitelist, naming it; every finding is a warning,
\* none an error; the empty list yields no finding.
C27_CapabilityValidation ==
  Returned("validateTools") =>
    LET given == fnCall.arg[1]
        found == fnCall.result[1]
    IN  /\ Len(found) = Cardinality(OutsideWhitelist(given.tokens, given.known))
        /\ \A i \in OutsideWhitelist(given.tokens, given.known) :
             Cardinality({ f \in 1..Len(found) :
                             found[f].message = Trim(given.tokens[i]) })
               = Cardinality({ j \in OutsideWhitelist(given.tokens, given.known) :
                                 Trim(given.tokens[j]) = Trim(given.tokens[i]) })
        /\ \A f \in 1..Len(found) :
             found[f].severity = "warning" /\ found[f].field = "tools"
        /\ given.tools = <<>> => found = <<>>

\* A list of three tokens, two of them outside the default whitelist, was
\* validated: two warnings.
C27_Witness ==
  /\ Returned("validateTools")
  /\ fnCall.arg[1].known = KNOWN_TOOLS
  /\ fnCall.arg[1].tokens
       = << << Ch(" "), Ch("evil_tool") >>, Word("read"), Word("rm") >>
  /\ Len(fnCall.result[1]) = 2
  /\ fnCall.result[1][1].severity = "warning"

\* The error findings on the persona.
PersonaErrors(findings) ==
  SelectSeq(findings,
            LAMBDA w : w.severity = "error" /\ w.field = "systemPrompt")

\* C28: persona size boundary.  A persona of exactly
\* MAX_SYSTEM_PROMPT_LENGTH characters yields no error finding and does not
\* keep its file from loading; a persona one character longer yields
\* exactly one error finding, and its file gives no definition.
C28_PersonaBoundary ==
  /\ Returned("validateSystemPrompt") =>
       /\ StrLen(fnCall.arg[1]) = MAX_SYSTEM_PROMPT_LENGTH =>
            ~hasError(fnCall.result[1])
       /\ StrLen(fnCall.arg[1]) = MAX_SYSTEM_PROMPT_LENGTH + 1 =>
            Len(OfSeverity(fnCall.result[1], "error")) = 1
  /\ (Returned("loadAgentFile") /\ fnCall.arg[1].readable /\ fnCall.arg[1].fm) =>
       LET persona == Trim(fnCall.arg[1].body)
           loaded  == fnCall.result[1]
       IN  /\ StrLen(persona) = MAX_SYSTEM_PROMPT_LENGTH =>
                /\ PersonaErrors(loaded.warnings) = <<>>
                /\ loaded.agent = Null
                     => hasError(validateName(DeclaredAgent(fnCall.arg[1]).name))
           /\ StrLen(persona) = MAX_SYSTEM_PROMPT_LENGTH + 1 =>
                /\ Len(PersonaErrors(loaded.warnings)) = 1
                /\ loaded.agent = Null

\* A file whose identity is inside the grammar and whose persona is exactly
\* at the ceiling was loaded: the definition is returned.
C28_Witness ==
  /\ Returned("loadAgentFile")
  /\ StrLen(Trim(fnCall.arg[1].body)) = MAX_SYSTEM_PROMPT_LENGTH
  /\ fnCall.result[1].agent # Null
  /\ StrLen(fnCall.result[1].agent[1].systemPrompt) = MAX_SYSTEM_PROMPT_LENGTH

\* C29: field defaults.  A readable definition file with frontmatter that
\* sets no identity loads, with loadAgentFile and with parseAgentFile, as a
\* definition whose identity is the base name of the file; one that sets no
\* capabilities and loads, loads with the capabilities read,grep,find,ls.
C29_FieldDefaults ==
  /\ (Returned("loadAgentFile") /\ fnCall.arg[1].readable /\ fnCall.arg[1].fm) =>
       LET file   == fnCall.arg[1]
           loaded == fnCall.result[1]
       IN  /\ ( /\ ~HasField(file.header, Word("name"))
                /\ StrLen(Trim(file.body)) <= MAX_SYSTEM_PROMPT_LENGTH ) =>
                /\ loaded.agent # Null
                /\ loaded.agent[1].name = file.base
                /\ ~hasError(loaded.warnings)
           /\ (~HasField(file.header, Word("tools")) /\ loaded.agent # Null) =>
                loaded.agent[1].tools = DefaultTools
  /\ (Returned("parseAgentFile") /\ fnCall.arg[1].readable /\ fnCall.arg[1].fm) =>
       LET file   == fnCall.arg[1]
           loaded == fnCall.result[1]
       IN  /\ ~HasField(file.header, Word("name")) =>
                loaded # Null /\ loaded[1].name = file.base
           /\ (~HasField(file.header, Word("tools")) /\ loaded # Null) =>
                loaded[1].tools = DefaultTools

\* The files that give a definition, with Load.
Loadable(files, Load(_)) == SelectSeq(files, LAMBDA f : Load(f) # Null)

\* The directories with the files that give no definition taken out of
\* their listings.
WithoutFailing(dirs) ==
  [d \in DOMAIN dirs |->
     IF dirs[d] = Null \/ ~dirs[d][1].listable THEN dirs[d]
     ELSE Some(Dir(TRUE, Loadable(DefinitionFiles(dirs[d][1].files),
                                  parseAgentFile)))]

\* C30: scan robustness.  A scan, by scanAgentDirectory and by
\* scanAgentDirs, gives the definitions and collisions it gives when the
\* files that cannot be read, lack frontmatter or fail validation are not
\* there at all: no such file keeps another from being loaded; and a root
\* that does not exist gives the empty result.
C30_ScanRobust ==
  /\ Returned("scanAgentDirectory") =>
       LET scan == fnCall.result[1]
       IN  IF fnCall.arg[1] = Null
             THEN scan.agents = <<>> /\ scan.collisions = <<>>
             ELSE LET rest == scanAgentDirectory(
                                Some(Loadable(
                                       DefinitionFiles(fnCall.arg[1][1]),
                                       LAMBDA f : loadAgentFile(f).agent)))
                  IN  /\ scan.agents = rest.agents
                      /\ scan.collisions = rest.collisions
  /\ Returned("scanAgentDirs") =>
       /\ fnCall.result[1] = scanAgentDirs(WithoutFailing(fnCall.arg[1]))
       /\ (\A d \in DOMAIN fnCall.arg[1] : fnCall.arg[1][d] = Null)
            => fnCall.result[1] = <<>>

\* A tree was scanned in which a file that cannot be read and a file whose
\* identity is outside the grammar are visited before a good file: the good
\* file is loaded.
C30_Witness ==
  /\ Returned("scanAgentDirectory")
  /\ fnCall.arg[1] # Null
  /\ Len(fnCall.arg[1][1]) = 3
  /\ ~fnCall.arg[1][1][1].readable
  /\ Declared(fnCall.arg[1][1][2]) = Some(Text(<< "a", ";", "b" >>))
  /\ Len(fnCall.result[1].agents) = 1
  /\ fnCall.result[1].agents[1].file = PathOf(fnCall.arg[1][1][3])


\* The state was discarded by a team switch and replaced: the roster holds
\* a different state for its identity.
Replaced(roster, hp, p) ==
  roster[ToLowerCase(hp[p].def.name)] \notin {0, p}

\* C31: only members of the active team are dispatched.  A child process is
\* launched only for a state the roster holds at the moment of the launch,
\* also when a team was activated while the call awaited its pre-flight
\* probe; and no step of a run changes a state that a team switch has
\* replaced in the roster.
C31_ActiveRoster ==
  [][ /\ \A id \in CallIds :
           (calls[id].pc # "child" /\ calls'[id].pc = "child") =>
             \E k \in Keys : agentStates'[k] = calls'[id].obj
      /\ \A p \in Changed : ~Replaced(agentStates', heap', p)
    ]_vars


\* C32: chunking invariance of the event decoder.  However the stream of a
\* child arrives, in one read or cut into several, also in the middle of a
\* line, the run ends with the tool count, the transcript and the
\* context-window percentage it ends with when the whole stream arrives in
\* one read.
C32_ChunkingInvariance ==
  Returned("childOutput") =>
    fnCall.result[1]
      = AtClose(ReadAll(AtSpawn,
                        IF fnCall.arg[1] = <<>> THEN <<>>
                        ELSE << Flatten(fnCall.arg[1]) >>,
                        contextWindow))

\* A stream arrived in three reads, the first cut in the middle of a tool
\* start, the second before the newline of a text delta: one tool start is
\* counted and the text is in the transcript.
C32_Witness ==
  /\ Returned("childOutput")
  /\ fnCall.arg[1] = << <<"TOOL_head">>, <<"TOOL_tail", "NL", "TEXT_a">>,
                        <<"NL">> >>
  /\ fnCall.result[1].toolCount = 1
  /\ fnCall.result[1].transcript = <<"a">>

\* The stream with its last, unterminated line ended by a newline.
Terminated(reads) ==
  [reads EXCEPT ![Len(reads)] = @ \o <<"NL">>]

\* C33: trailing fragment.  When the stream ends with a fragment that is one
\* whole event without its newline (a text delta, a tool start, a usage
\* report), the run ends as it ends when the same event is ended by a
\* newline.
C33_TrailingFragment ==
  ( /\ Returned("childOutput")
    /\ fnCall.arg[1] # <<>>
    /\ LET last == SplitTokens(Flatten(fnCall.arg[1]))
       IN  last[Len(last)] # <<>> /\ ParseLine(last[Len(last)]) # Null ) =>
    fnCall.result[1]
      = AtClose(ReadAll(AtSpawn, Terminated(fnCall.arg[1]), contextWindow))


\* The calls that launch on state o in this step: the call goes on to its
\* child, or spawn throws and the call returns.
Launched(o) ==
  { id \in CallIds :
      \/ calls[id].pc # "child" /\ calls'[id].pc = "child" /\ calls'[id].obj = o
      \/ /\ settled'.n # settled.n
         /\ settled'.kind = "threw"
         /\ settled'.id = id
         /\ settled'.obj = o }

TickersOf(o) == { t \in timers : t.obj = o }

\* C35: ticker lifetime.  A state whose run has ended (done or error) has no
\* active ticker, so that its elapsed time stays as it is until the next
\* accepted dispatch, and no state has more than one active ticker.
C35_TickerLifetime ==
  \A o \in 1..Len(heap) :
    /\ heap[o].status \in {"done", "error"} => TickersOf(o) = {}
    /\ Cardinality(TickersOf(o)) <= 1


\* C36: one artifact per identity.  After activation, two entries of the
\* roster under different keys name different session files.
C36_OneArtifactPerIdentity ==
  Returned("activateTeam") =>
    \A a, b \in fnCall.result[1] :
      a.key # b.key => a.sessionFile # b.sessionFile


\* The results dispatchAgent gives without starting a run.
RejectedKinds == {"notfound", "already", "blocked"}

\* C37: result and state agree.  In the step in which a call returns: a
\* rejected call returns a non-zero exit indicator and elapsed 0; an
\* accepted call returns 0 exactly when the status of its agent state is
\* then done, and a non-zero indicator exactly when it is then error.
C37_ResultAndState ==
  [][ settled'.n # settled.n =>
        IF settled'.kind \in RejectedKinds
          THEN settled'.exitCode # 0 /\ settled'.elapsed = 0
          ELSE /\ settled'.exitCode = 0
                    <=> heap'[settled'.obj].status = "done"
               /\ settled'.exitCode # 0
                    <=> heap'[settled'.obj].status = "error"
    ]_vars


\* C38: context-usage range.  The context-window usage percent of every
\* agent state lies between 0 and 100.
C38_ContextPctRange ==
  \A o \in 1..Len(heap) : heap[o].contextPct \in 0..100


\* C39: git status freshness.  Once every refresh started has completed, the
\* status stored is the result of the refresh that was started last.
C39_GitStatusFreshness ==
  (git.started > 0 /\ git.fetches = {}) => git.stored = git.started

====
